---- MODULE Spec2Model ----
(***************************************************************************)
(* Model of memoryball-studio's subject-framing engine: geometry           *)
(* utilities (src/src/utils.py), detection fusion, crop and motion planner *)
(* and temporal tracker (src/src/face_cropper.py), the still-image and     *)
(* video pipelines (src/src/image_pipeline.py, src/src/video_pipeline.py)  *)
(* and the batch drivers (src/main.py).                                    *)
(*                                                                         *)
(* Numbers.  The code computes in floating point.  Here every coordinate   *)
(* and size is an integer number of pixels and every score an integer      *)
(* number of hundredths; a ratio is a pair <<num, den>>.  A product with a *)
(* ratio is rounded down to the pixel grid (MulRatio), as floating point   *)
(* rounds to its own grid; comparisons against thresholds are made exactly *)
(* by cross-multiplication.                                                *)
(***************************************************************************)
EXTENDS Integers, Sequences, FiniteSets, TLC

VARIABLES
    pc,               \* position of the modelled caller
    width, height,    \* pixel size of the current image or video frame
    \* -- normalize_crop_with_overflow under test
    crop_box, overflow_ratio, normalized, renormalized,
    \* -- still-image pipeline
    options,          \* ProcessingOptions
    backend,          \* what the detector backends report for the image
    face_cropper,     \* optional FaceCropper handed to the pipeline
    manual_crop,      \* optional ManualCrop override
    detections,       \* result of detect_subjects
    planned,          \* start/end crop handed to the frame generator
    frames,           \* crops of the frames handed to the encoder, in order
    \* -- video batch and tracker
    video_index, frame_index, fallback,
    last_smoothed, lost_frames, smoother_state, max_tracking_gap,
    \* -- what the last tracked frame did (history)
    focus,            \* the focus track derived from the frame's detections
    prev_smoothed,    \* last_smoothed before the frame was tracked
    since_detection,  \* frames without focus since this video's last focus
    prev_since,       \* since_detection before the frame was tracked
    prev_state,       \* smoother_state before the frame was tracked
    returned,         \* the crop track returned
    written,          \* the crop the frame was written to the encoder with
    \* -- frame sequence generator under test
    clip_fps, clip_duration,
    frame_plan,       \* <<start-hold, transition, end-hold>> frame counts
    \* -- batch drivers of the command line; background analysis of the window
    images,           \* number of images of the batch (items 1..images)
    videos,           \* number of videos of the batch
    max_workers,      \* options.threads or 1
    futures,          \* per image: "pending", "running", or how the worker ended
    collected,        \* images whose future the driver has taken from as_completed
    thread_item,      \* per pool thread: the image it processes, 0 when idle
    thread_local,     \* per pool thread: index of its detector in detectors, 0 for none
    detectors,        \* the detectors created by the pool, by creating thread
    video_cursor,     \* videos the driver has gone through
    video_results,    \* per video: "pending" or how process_video ended
    logged,           \* items for which logger.exception was called
    preview_cropper,  \* the window's _preview_cropper exists
    auto_task_token,  \* _auto_task_token, 0 for None
    bulk_auto_token,  \* _bulk_auto_token, 0 for None
    next_token,       \* tokens handed out so far
    gui_threads,      \* background threads of the window that have not ended
    callbacks,        \* calls queued for the main loop with after(0, ...)
    controls_enabled, \* state of the buttons _set_controls_enabled switches
    motion_enabled_var, \* the "motion" checkbox
    manual_static,    \* the current image's manual crop has start = end
    \* -- frame buffers handed to the encoder
    out_size,         \* options.size
    cropped,          \* shapes <<rows, columns, channels>> of the crops cut out
    buffers,          \* shapes of the buffers written to the encoder
    \* -- _filter_relevant_detections under test
    candidate_list,   \* the detections handed to the filter
    relevant_list,    \* the list it returned
    raw_rect,         \* the rectangle a backend reports
    bases,            \* per backend, the square it builds from raw_rect
    boxes,            \* per backend, the detection box it returns
    focus_dets,       \* the detections handed to focus_window
    focus_size,       \* the side of the window asked for
    focus_box,        \* what focus_window returned
    caller,           \* who constructs the options
    argv,             \* the parsed command line, or the window's settings
    built,            \* the options object, or the exception raised instead
    direction_read,   \* the direction determine_motion_manual read from the options
    sources,          \* the media files of the batch, in the order found
    pool_size,        \* options.threads or 1
    item_state,       \* per source: pending, checked, encoding, written or skipped
    out_files,        \* the output files that exist, each with the source written to it last
    skipped_for,      \* sources skipped because of another source's output
    overwrote,        \* sources whose encoder replaced another source's output
    media_kind,       \* video (process_video) or image (_encode_video)
    frames_left,      \* frames the source still yields
    frames_sent,      \* frames written to the encoder's input pipe
    cap_open,         \* the VideoCapture is open and not released
    pipe_open,        \* the encoder's input pipe is open
    proc_state,       \* the encoder process: none, running, exited or reaped
    raised            \* the exception that reached the caller

sharedVars == <<pc, width, height>>
geomVars == <<crop_box, overflow_ratio, normalized, renormalized>>
imageVars == <<options, backend, face_cropper, manual_crop, detections, planned,
               frames>>
trackerVars == <<last_smoothed, lost_frames, smoother_state, max_tracking_gap>>
videoVars == <<video_index, frame_index, fallback, focus, prev_smoothed,
               since_detection, prev_since, prev_state, returned, written>>
clipVars == <<clip_fps, clip_duration, frame_plan>>
filterVars == <<candidate_list, relevant_list>>
encodeVars == <<out_size, cropped, buffers>>
batchVars == <<images, videos, max_workers, futures, collected, thread_item,
               thread_local, detectors, video_cursor, video_results, logged>>
guiVars == <<preview_cropper, auto_task_token, bulk_auto_token, next_token,
             gui_threads, callbacks, controls_enabled, motion_enabled_var,
             manual_static>>
convVars == <<raw_rect, bases, boxes>>
focusVars == <<focus_dets, focus_size, focus_box>>
optVars == <<caller, argv, built, direction_read>>
outVars == <<sources, pool_size, item_state, out_files, skipped_for, overwrote>>
procVars == <<media_kind, frames_left, frames_sent, cap_open, pipe_open, proc_state, raised>>
vars == <<sharedVars, geomVars, imageVars, trackerVars, videoVars, clipVars, batchVars, guiVars, encodeVars, filterVars, convVars, focusVars, optVars, outVars, procVars>>

----------------------------------------------------------------------------
(* Values *)

\* Optional[T]: None is the empty sequence, a present value v is <<v>>.
None == <<>>
Some(v) == <<v>>
IsNone(o) == o = <<>>
Get(o) == o[1]

CropBox(x, y, size) == [x |-> x, y |-> y, size |-> size]
DetectionResult(score, box) == [score |-> score, box |-> box]
ManualCrop(start, end) == [start |-> start, end |-> end]

Max2(a, b) == IF a >= b THEN a ELSE b
Min2(a, b) == IF a <= b THEN a ELSE b
Abs(a) == IF a < 0 THEN -a ELSE a
SetMax(S) == CHOOSE m \in S : \A n \in S : n <= m
SetMin(S) == CHOOSE m \in S : \A n \in S : m <= n

\* value * ratio, rounded down to the pixel grid.
MulRatio(value, ratio) == (value * ratio[1]) \div ratio[2]
\* value / ratio, rounded down to the pixel grid.
DivRatio(value, ratio) == (value * ratio[2]) \div ratio[1]

\* Frame sizes the images and videos are drawn from (landscape, portrait,
\* square).
FrameSizes == {<<80, 60>>, <<60, 80>>, <<64, 64>>}

----------------------------------------------------------------------------
(* Geometry utilities, src/src/utils.py *)

CROP_OVERFLOW_RATIO == <<1, 2>>
ORIENTATION_CIRCLE_MARGIN == <<1, 10>>
NO_OVERFLOW == <<0, 1>>

clamp(value, low, high) == Max2(low, Min2(value, high))

\* _circle_fraction, as <<num, den>>.
circle_fraction(circle_margin) ==
    IF circle_margin[1] <= 0 THEN <<1, 1>>
    ELSE <<Max2(0, circle_margin[2] - 2 * circle_margin[1]), circle_margin[2]>>

square_size_for_circle(diameter, circle_margin) ==
    LET d == Max2(0, diameter)
        fraction == circle_fraction(circle_margin)
    IN  IF fraction[1] <= 0 THEN d
        ELSE IF d # 0 THEN DivRatio(d, fraction) ELSE 0

expand_crop_for_circle(crop, circle_margin) ==
    LET fraction == circle_fraction(circle_margin)
    IN  IF fraction[1] <= 0 THEN CropBox(crop.x, crop.y, crop.size)
        ELSE LET new_size == DivRatio(crop.size, fraction)
             IN  \* center - new_size / 2 with center = x + size / 2
                 CropBox((2 * crop.x + crop.size - new_size) \div 2,
                         (2 * crop.y + crop.size - new_size) \div 2,
                         new_size)

\* Returns <<minimum, maximum>>.
crop_position_bounds(size, dimension, ratio) ==
    LET overflow == MulRatio(size, ratio)
        minimum == -overflow
        maximum == dimension - size + overflow
    IN  <<minimum, IF maximum < minimum THEN minimum ELSE maximum>>

max_crop_size(w, h) == Max2(w, h)

\* Mutant: the position range is computed from the requested size instead
\* of the clamped one.
normalize_crop_unclamped_bounds(w, h, box, ratio) ==
    LET size == clamp(box.size, 1, max_crop_size(w, h))
        bx == crop_position_bounds(box.size, w, ratio)
        by == crop_position_bounds(box.size, h, ratio)
    IN  CropBox(clamp(box.x, bx[1], bx[2]), clamp(box.y, by[1], by[2]), size)

\* Mutant: the size is not limited to max_crop_size.
normalize_crop_size_unbounded(w, h, box, ratio) ==
    LET size == Max2(box.size, 1)
        bx == crop_position_bounds(size, w, ratio)
        by == crop_position_bounds(size, h, ratio)
    IN  CropBox(clamp(box.x, bx[1], bx[2]), clamp(box.y, by[1], by[2]), size)

normalize_crop_with_overflow(w, h, box, ratio) ==
    LET size == clamp(box.size, 1, max_crop_size(w, h))
        bx == crop_position_bounds(size, w, ratio)
        by == crop_position_bounds(size, h, ratio)
    IN  CropBox(clamp(box.x, bx[1], bx[2]), clamp(box.y, by[1], by[2]), size)

----------------------------------------------------------------------------
(* Detection fusion, src/src/face_cropper.py                               *)
(*                                                                         *)
(* A FaceCropper is modelled by the record `self` of its configuration     *)
(* (min_face, face_priority, use_mediapipe); its tracker fields are the    *)
(* variables last_smoothed, lost_frames and smoother_state.  A backend's   *)
(* raw result is a record [x, y, w, h, conf]: a pixel rectangle and the    *)
(* backend's confidence in hundredths (for a cascade: the weight of the    *)
(* cascade that reported it).                                              *)

FaceCropper(min_face, face_priority, use_mediapipe) ==
    [min_face |-> min_face, face_priority |-> face_priority,
     use_mediapipe |-> use_mediapipe]

RawDetection(x, y, w, h, conf) == [x |-> x, y |-> y, w |-> w, h |-> h, conf |-> conf]

\* Indices of `keys` in descending order of key; equal keys keep their
\* order (sorted(..., reverse=True) is stable).
SortedIndicesDesc(keys) ==
    LET n == Len(keys)
        Before(i, j) == keys[i] > keys[j] \/ (keys[i] = keys[j] /\ i < j)
        Pos(i) == Cardinality({j \in 1..n : Before(j, i)}) + 1
    IN  [p \in 1..n |-> CHOOSE i \in 1..n : Pos(i) = p]

\* Index of the first greatest (max(...)) key.
FirstMaxIndex(keys) ==
    CHOOSE i \in 1..Len(keys) :
        /\ \A j \in 1..Len(keys) : keys[j] <= keys[i]
        /\ \A j \in 1..(i - 1) : keys[j] < keys[i]

\* Index of the first least (min(...)) key.
FirstMinIndex(keys) ==
    CHOOSE i \in 1..Len(keys) :
        /\ \A j \in 1..Len(keys) : keys[j] >= keys[i]
        /\ \A j \in 1..(i - 1) : keys[j] > keys[i]

\* floor(sqrt(n)), for math.hypot.
Isqrt(n) == CHOOSE r \in 0..(n + 1) : r * r <= n /\ (r + 1) * (r + 1) > n

min_face_size(self, w, h) == MulRatio(Min2(w, h), self.min_face)

\* Mutant: the expanded box is returned as it is, neither limited in size
\* nor moved back into the frame.
circle_aligned_box_unclamped(self, box, w, h) ==
    expand_crop_for_circle(box, ORIENTATION_CIRCLE_MARGIN)

circle_aligned_box(self, box, w, h) ==
    LET expanded == expand_crop_for_circle(box, ORIENTATION_CIRCLE_MARGIN)
        min_size == Max2(box.size, min_face_size(self, w, h))
        max_size == max_crop_size(w, h)
        size == clamp(expanded.size, min_size, max_size)
        \* center - size / 2, center = expanded.x + expanded.size / 2
        px == (2 * expanded.x + expanded.size - size) \div 2
        py == (2 * expanded.y + expanded.size - size) \div 2
    IN  CropBox(clamp(px, 0, Max2(0, w - size)), clamp(py, 0, Max2(0, h - size)), size)

\* The square of side `size` centred on the raw rectangle, clamped into
\* the frame: clamp(cx - size / 2, 0, max(0, dimension - size)).
centred_position(start, extent, size, dimension) ==
    clamp((2 * start + extent - size) \div 2, 0, Max2(0, dimension - size))

\* The square a backend hands to _circle_aligned_box, with the position
\* computed for the side `placed` and the side `size` stored.
base_box(raw, placed, size, w, h) ==
    CropBox(centred_position(raw.x, raw.w, placed, w),
            centred_position(raw.y, raw.h, placed, h), size)

\* _mp_box_to_crop: the position is computed for the floor-bounded side,
\* then the side is capped at the short side of the frame.
mp_base(self, raw, w, h) ==
    base_box(raw, Max2(Max2(raw.w, raw.h), min_face_size(self, w, h)),
             Min2(Max2(Max2(raw.w, raw.h), min_face_size(self, w, h)), Min2(w, h)),
             w, h)

\* _detect_with_cascade.run_detector and _detect_people: the side is
\* floor-bounded, and not capped.
cascade_base(self, raw, w, h) ==
    base_box(raw, Max2(Max2(raw.w, raw.h), min_face_size(self, w, h)),
             Max2(Max2(raw.w, raw.h), min_face_size(self, w, h)), w, h)

people_base(self, raw, w, h) ==
    base_box(raw, Max2(Max2(raw.w, raw.h), min_face_size(self, w, h)),
             Max2(Max2(raw.w, raw.h), min_face_size(self, w, h)), w, h)

\* _detect_saliency: the position is computed for the raw side, the side
\* is floor-bounded afterwards.
saliency_base(self, raw, w, h) ==
    base_box(raw, Max2(raw.w, raw.h),
             Max2(Max2(raw.w, raw.h), min_face_size(self, w, h)), w, h)

mp_box_to_crop(self, raw, w, h) ==
    circle_aligned_box(self, mp_base(self, raw, w, h), w, h)

detect_with_mediapipe(self, raws, w, h) ==
    [i \in 1..Len(raws) |->
        DetectionResult(raws[i].conf, mp_box_to_crop(self, raws[i], w, h))]

detect_with_cascade(self, raws, w, h) ==
    [i \in 1..Len(raws) |->
        LET raw == raws[i]
            size == Max2(Max2(raw.w, raw.h), min_face_size(self, w, h))
            base == cascade_base(self, raw, w, h)
            score == Min2(100, raw.conf + Min2(40, (size * 40) \div Max2(1, Min2(w, h))))
        IN  DetectionResult(score, circle_aligned_box(self, base, w, h))]

\* max(0, 1 - distance / max(1, max_radius)) in hundredths, for the centre
\* (x + extent / 2, y + extent_y / 2) of a raw rectangle.
center_bonus(raw, w, h) ==
    LET dx == 2 * raw.x + raw.w - w
        dy == 2 * raw.y + raw.h - h
        distance2 == Isqrt(dx * dx + dy * dy)
        max_radius2 == Isqrt(w * w + h * h)
    IN  Max2(0, 100 - (100 * distance2) \div Max2(2, max_radius2))

detect_people(self, raws, w, h) ==
    [i \in 1..Len(raws) |->
        LET raw == raws[i]
            base == people_base(self, raw, w, h)
            score == Max2(20, Min2(100, (raw.conf * 70 + center_bonus(raw, w, h) * 50) \div 100))
        IN  DetectionResult(score, circle_aligned_box(self, base, w, h))]

detect_saliency(self, raws, w, h) ==
    [i \in 1..Len(raws) |->
        LET raw == raws[i]
            size == Max2(raw.w, raw.h)
            base == saliency_base(self, raw, w, h)
            size_ratio == Min2(100, (100 * size) \div Max2(1, Min2(w, h)))
            interest == 25 + (center_bonus(raw, w, h) * 50) \div 100 + (size_ratio * 35) \div 100
        IN  DetectionResult(Min2(90, interest), circle_aligned_box(self, base, w, h))]

\* intersection / union >= threshold, exactly; the code's early returns of
\* 0.0 are the cases with no intersection or an empty union.
square_iou_at_least(a, b, threshold) ==
    LET x1 == Max2(a.x, b.x)
        y1 == Max2(a.y, b.y)
        x2 == Min2(a.x + a.size, b.x + b.size)
        y2 == Min2(a.y + a.size, b.y + b.size)
        intersection == (x2 - x1) * (y2 - y1)
        union == a.size * a.size + b.size * b.size - intersection
    IN  IF x2 <= x1 \/ y2 <= y1 THEN threshold[1] <= 0
        ELSE IF union <= 0 THEN threshold[1] <= 0
        ELSE threshold[2] * intersection >= threshold[1] * union

DUPLICATE_IOU == <<2, 5>>

\* Key of sorted(..., key=lambda d: (d.score, d.box.size)): sizes are below
\* 100000, so the integer orders as the pair does.
score_size_key(det) == det.score * 100000 + det.box.size

is_duplicate(det, kept) == square_iou_at_least(det.box, kept.box, DUPLICATE_IOU)

\* One pass of the loop of _merge_detections over `det`.
merge_one(merged, det) ==
    IF \E k \in 1..Len(merged) : is_duplicate(det, merged[k])
    THEN LET k == CHOOSE i \in 1..Len(merged) :
                      /\ is_duplicate(det, merged[i])
                      /\ \A j \in 1..(i - 1) : ~is_duplicate(det, merged[j])
         IN  IF det.score > merged[k].score
             THEN [merged EXCEPT ![k] = DetectionResult(det.score, det.box)]
             ELSE merged
    ELSE Append(merged, DetectionResult(det.score, det.box))

RECURSIVE merge_loop(_, _, _, _)
merge_loop(dets, order, i, merged) ==
    IF i > Len(dets) THEN merged
    ELSE merge_loop(dets, order, i + 1, merge_one(merged, dets[order[i]]))

\* Mutant: candidates are visited in input order, not by (score, size).
merge_detections_unsorted(dets) ==
    IF dets = <<>> THEN <<>>
    ELSE merge_loop(dets, [i \in 1..Len(dets) |-> i], 1, <<>>)

merge_detections(dets) ==
    IF dets = <<>> THEN <<>>
    ELSE merge_loop(dets,
                    SortedIndicesDesc([i \in 1..Len(dets) |-> score_size_key(dets[i])]),
                    1, <<>>)

\* center_factor of _filter_relevant_detections as <<num, den>>:
\* max(0, 1 - 0.5 * (|cx - w/2| / max(w/2, 1) + |cy - h/2| / max(h/2, 1))).
center_factor(det, w, h) ==
    LET a == Abs(2 * det.box.x + det.box.size - w)
        b == Abs(2 * det.box.y + det.box.size - h)
        hw == Max2(w, 2)
        hh == Max2(h, 2)
    IN  <<Max2(0, 2 * hw * hh - a * hh - b * hw), 2 * hw * hh>>

\* priority of _filter_relevant_detections,
\* score*0.6 + center_factor*0.3 + size/max(1, max_size)*0.4, over the
\* common denominator 1000 * center_factor[2] * max(1, max_size).
relevance_priority(det, w, h, max_size) ==
    LET cf == center_factor(det, w, h)
        ms == Max2(1, max_size)
    IN  6 * det.score * cf[2] * ms + 3 * 100 * cf[1] * ms + 4 * 100 * det.box.size * cf[2]

SubSeqByIndices(seq, idx) == [i \in 1..Len(idx) |-> seq[idx[i]]]
SeqFilter(seq, Keep(_)) ==
    LET RECURSIVE go(_)
        go(i) == IF i > Len(seq) THEN <<>>
                 ELSE IF Keep(seq[i]) THEN <<seq[i]>> \o go(i + 1) ELSE go(i + 1)
    IN  go(1)
InSeq(e, seq) == \E i \in 1..Len(seq) : seq[i] = e

RELEVANT_LIMIT == 5

\* Mutant: the list is not cut.
TakeAll(seq, n) == seq

\* The test of the list comprehension `filtered`.
is_relevant(det, max_size, w, h) ==
    \/ 5 * det.box.size >= 2 * max_size
    \/ det.score >= 60
    \/ 100 * center_factor(det, w, h)[1] >= 65 * center_factor(det, w, h)[2]

\* seq[:n]
Take(seq, n) == SubSeq(seq, 1, Min2(Len(seq), n))

filter_relevant_detections(self, dets, w, h) ==
    IF dets = <<>> THEN <<>>
    ELSE
    LET max_size == SetMax({dets[i].box.size : i \in 1..Len(dets)})
        passes(det) == is_relevant(det, max_size, w, h)
        priorities(seq) ==
            [i \in 1..Len(seq) |-> relevance_priority(seq[i], w, h, max_size)]
        ranked_pool(filtered) == IF filtered # <<>> THEN filtered ELSE dets
        sorted(pool) == SubSeqByIndices(pool, SortedIndicesDesc(priorities(pool)))
        with_alt(ranked, others) ==
            IF Len(ranked) = 1 /\ Len(dets) > 1 /\ others # <<>>
            THEN Append(ranked, others[FirstMaxIndex(priorities(others))])
            ELSE ranked
        append_alt(ranked) ==
            LET notin(det) == ~InSeq(det, ranked)
            IN  with_alt(ranked, SeqFilter(dets, notin))
    IN  IF max_size <= 0 THEN <<>>
        ELSE append_alt(Take(sorted(ranked_pool(SeqFilter(dets, passes))),
                             RELEVANT_LIMIT))

RECURSIVE SeqSum(_)
SeqSum(seq) == IF seq = <<>> THEN 0 ELSE seq[1] + SeqSum(Tail(seq))

\* Axis-aligned bounds of a list of detections.
bounds_min_x(rel) == SetMin({rel[i].box.x : i \in 1..Len(rel)})
bounds_max_x(rel) == SetMax({rel[i].box.x + rel[i].box.size : i \in 1..Len(rel)})
bounds_min_y(rel) == SetMin({rel[i].box.y : i \in 1..Len(rel)})
bounds_max_y(rel) == SetMax({rel[i].box.y + rel[i].box.size : i \in 1..Len(rel)})
largest_size(rel) == SetMax({rel[i].box.size : i \in 1..Len(rel)})

COVER_SCALE == <<21, 20>>

\* Mutant: the cover is not enlarged to the larger of its two sides.
combined_size_width_only(self, rel, w, h) ==
    LET cover_width == bounds_max_x(rel) - bounds_min_x(rel)
        min_size == Max2(min_face_size(self, w, h), largest_size(rel))
    IN  clamp(MulRatio(Max2(cover_width, largest_size(rel)), COVER_SCALE),
              min_size, max_crop_size(w, h))

combined_size(self, rel, w, h) ==
    LET cover_width == bounds_max_x(rel) - bounds_min_x(rel)
        cover_height == bounds_max_y(rel) - bounds_min_y(rel)
        min_size == Max2(min_face_size(self, w, h), largest_size(rel))
        size == Max2(Max2(cover_width, cover_height), largest_size(rel))
    IN  clamp(MulRatio(size, COVER_SCALE), min_size, max_crop_size(w, h))

\* Mutant: a single relevant detection is combined too.
combine_minimum_one(self) == 1

\* The least number of relevant detections combine_detections combines.
combine_minimum(self) == 2

combine_detections(self, dets, w, h) ==
    LET \* max(0.1, score) * size, in hundredths
        weights(relevant) ==
            [i \in 1..Len(relevant) |->
                Max2(10, relevant[i].score) * relevant[i].box.size]
        \* twice the weighted centres
        sum_cx2(relevant) ==
            SeqSum([i \in 1..Len(relevant) |->
                (2 * relevant[i].box.x + relevant[i].box.size) * weights(relevant)[i]])
        sum_cy2(relevant) ==
            SeqSum([i \in 1..Len(relevant) |->
                (2 * relevant[i].box.y + relevant[i].box.size) * weights(relevant)[i]])
        \* weighted_c - size / 2, clamped so that the bounds stay covered
        place(relevant, size, total_weight, cx2, cy2) ==
            Some(CropBox(
                clamp((cx2 - size * total_weight) \div (2 * total_weight),
                      bounds_max_x(relevant) - size, bounds_min_x(relevant)),
                clamp((cy2 - size * total_weight) \div (2 * total_weight),
                      bounds_max_y(relevant) - size, bounds_min_y(relevant)),
                size))
        weigh(relevant, size, sum_weights) ==
            place(relevant, size,
                  IF sum_weights # 0 THEN sum_weights ELSE 100 * Len(relevant),
                  sum_cx2(relevant), sum_cy2(relevant))
        combine(relevant) ==
            IF Len(relevant) < combine_minimum(self) THEN None
            ELSE weigh(relevant, combined_size(self, relevant, w, h),
                       SeqSum(weights(relevant)))
    IN  combine(filter_relevant_detections(self, dets, w, h))

CONFIDENT_SCORE == 60

primary_suffices_never(primary) == FALSE

\* The primary result is confident enough to skip the person detector.
primary_suffices(primary) ==
    ~(SetMax({0} \cup {primary[i].score : i \in 1..Len(primary)}) < CONFIDENT_SCORE
      \/ Len(primary) < 1)

\* The candidates detect_subjects hands to _merge_detections.  `found` is
\* what the backends report: [primary, people, saliency], each a sequence
\* of raw results; a backend is consulted only where the code calls it.
collect_detections(self, found, w, h) ==
    LET with_people(primary) ==
            IF primary_suffices(primary) THEN primary
            ELSE primary \o detect_people(self, found.people, w, h)
        or_saliency(found_so_far) ==
            IF found_so_far = <<>> THEN detect_saliency(self, found.saliency, w, h)
            ELSE found_so_far
    IN  or_saliency(with_people(
            IF self.use_mediapipe
            THEN detect_with_mediapipe(self, found.primary, w, h)
            ELSE detect_with_cascade(self, found.primary, w, h)))

\* The backends detect_subjects calls, in the order of the calls.
detector_calls(self, found, w, h) ==
    LET then_saliency(calls, found_so_far) ==
            IF found_so_far = <<>> THEN Append(calls, "saliency") ELSE calls
        then_people(calls, primary) ==
            IF primary_suffices(primary) THEN then_saliency(calls, primary)
            ELSE then_saliency(Append(calls, "people"),
                               primary \o detect_people(self, found.people, w, h))
    IN  IF self.use_mediapipe
        THEN then_people(<<"mediapipe">>,
                         detect_with_mediapipe(self, found.primary, w, h))
        ELSE then_people(<<"cascade">>,
                         detect_with_cascade(self, found.primary, w, h))

detect_subjects(self, found, w, h) ==
    merge_detections(collect_detections(self, found, w, h))

\* Mutant: the mode "all" selects nothing.
select_detection_not_all(self, dets, w, h) ==
    IF dets = <<>> \/ self.face_priority = "all" THEN None
    ELSE IF self.face_priority = "center"
    THEN Some(dets[FirstMinIndex([i \in 1..Len(dets) |->
                  (2 * dets[i].box.x + dets[i].box.size - w)
                      * (2 * dets[i].box.x + dets[i].box.size - w)
                  + (2 * dets[i].box.y + dets[i].box.size - h)
                      * (2 * dets[i].box.y + dets[i].box.size - h)])])
    ELSE Some(dets[FirstMaxIndex([i \in 1..Len(dets) |-> dets[i].box.size])])

select_detection(self, dets, w, h) ==
    IF dets = <<>> THEN None
    ELSE IF self.face_priority = "center"
    THEN Some(dets[FirstMinIndex([i \in 1..Len(dets) |->
                  \* four times the squared distance to the frame centre
                  (2 * dets[i].box.x + dets[i].box.size - w)
                      * (2 * dets[i].box.x + dets[i].box.size - w)
                  + (2 * dets[i].box.y + dets[i].box.size - h)
                      * (2 * dets[i].box.y + dets[i].box.size - h)])])
    ELSE IF self.face_priority = "largest" \/ self.face_priority = "all"
    THEN Some(dets[FirstMaxIndex([i \in 1..Len(dets) |-> dets[i].box.size])])
    ELSE Some(dets[1])

\* Spans <<start, end, weight>> of the detections on one axis; the weight
\* is the numerator over a denominator common to the axis (max(1, max_size)
\* for "largest", max(total / 2, 1) doubled for "center", max(window_size, 1)
\* for "all"), so coverages compare as the code's do.
axis_spans(self, dets, axis, total, window_size) ==
    IF dets = <<>> THEN <<>>
    ELSE
    LET max_size == SetMax({dets[i].box.size : i \in 1..Len(dets)})
    IN  [i \in 1..Len(dets) |->
            LET start == IF axis = "x" THEN dets[i].box.x ELSE dets[i].box.y
                end == start + dets[i].box.size
                weight ==
                    IF self.face_priority = "largest"
                    THEN Max2(1, max_size) + dets[i].box.size
                    ELSE IF self.face_priority = "center"
                    THEN Max2(total, 2)
                         + Max2(0, Max2(total, 2) - Abs(start + end - total))
                    ELSE Max2(window_size, 1) + Min2(dets[i].box.size, window_size)
            IN  <<start, end, weight>>]

RECURSIVE SortedSeqOf(_)
SortedSeqOf(S) == IF S = {} THEN <<>>
                  ELSE LET m == SetMin(S) IN <<m>> \o SortedSeqOf(S \ {m})

span_coverage(spans, pos, window_size) ==
    SeqSum([i \in 1..Len(spans) |->
        LET overlap == Min2(pos + window_size, spans[i][2]) - Max2(pos, spans[i][1])
        IN  IF overlap > 0 THEN overlap * spans[i][3] ELSE 0])

RECURSIVE best_position_loop(_, _, _, _, _, _, _)
best_position_loop(cands, i, spans, window_size, center, best_score, best_pos) ==
    IF i > Len(cands) THEN best_pos
    ELSE LET visit(pos, score) ==
                 IF score > best_score
                    \/ (score = best_score
                        /\ Abs(pos - center) < Abs(best_pos - center))
                 THEN best_position_loop(cands, i + 1, spans, window_size, center,
                                         score, pos)
                 ELSE best_position_loop(cands, i + 1, spans, window_size, center,
                                         best_score, best_pos)
         IN  visit(cands[i], span_coverage(spans, cands[i], window_size))

\* Mutant: the centred position is returned whatever the spans are.
best_axis_position_centred(spans, window_size, total) ==
    clamp((total - window_size) \div 2, 0, Max2(0, total - window_size))

best_axis_position(spans, window_size, total) ==
    LET limit == Max2(0, total - window_size)
        center == clamp((total - window_size) \div 2, 0, limit)
        candidates == {0, limit, center}
                      \cup {clamp(spans[i][1], 0, limit) : i \in 1..Len(spans)}
                      \cup {clamp(spans[i][2] - window_size, 0, limit) : i \in 1..Len(spans)}
    IN  IF limit <= 0 THEN 0
        ELSE clamp(best_position_loop(SortedSeqOf(candidates), 1, spans, window_size,
                                      center, -1, center),
                   0, limit)

focus_window(self, dets, w, h, window_size) ==
    IF dets = <<>> THEN None
    ELSE Some(CropBox(
            best_axis_position(axis_spans(self, dets, "x", w, window_size), window_size, w),
            best_axis_position(axis_spans(self, dets, "y", h, window_size), window_size, h),
            window_size))

position_with_constraints(preferred, min_edge, max_edge, size, total) ==
    LET limit == Max2(0, total - size)
        coverage_min == Max2(max_edge - size, 0)
        coverage_max == Min2(min_edge, limit)
    IN  IF coverage_min > coverage_max THEN clamp(preferred, 0, limit)
        ELSE clamp(preferred, coverage_min, coverage_max)

crop_from_bounds(min_x, max_x, min_y, max_y, size, w, h, top_ratio) ==
    LET preferred_x == (min_x + max_x - size) \div 2
        preferred_y == min_y - MulRatio(size, top_ratio)
    IN  CropBox(position_with_constraints(preferred_x, min_x, max_x, size, w),
                position_with_constraints(preferred_y, min_y, max_y, size, h),
                size)

BODY_SCALE == <<17, 10>>
\* Mutant: the closer end point is sized at half the span.
FACE_SCALE_HALVED == <<1, 2>>
FACE_SCALE == <<28, 25>>        \* 1.0 + face_margin, face_margin = 0.12
BODY_TOP_RATIO == <<1, 5>>
FACE_TOP_RATIO == <<2, 25>>

\* Returns None or Some(<<start, end>>).
plan_motion(self, dets, w, h) ==
    LET face_min == min_face_size(self, w, h)
        max_size == max_crop_size(w, h)
        \* sorted(relevant, key=size, reverse=True)
        by_size(relevant) ==
            SubSeqByIndices(relevant,
                SortedIndicesDesc([i \in 1..Len(relevant) |-> relevant[i].box.size]))
        two_subjects(primary, secondary) ==
            Some(<<crop_from_bounds(primary.x, primary.x + primary.size,
                       primary.y, primary.y + primary.size,
                       clamp(MulRatio(primary.size, BODY_SCALE),
                             Max2(face_min, primary.size), max_size),
                       w, h, BODY_TOP_RATIO),
                   crop_from_bounds(secondary.x, secondary.x + secondary.size,
                       secondary.y, secondary.y + secondary.size,
                       clamp(MulRatio(secondary.size, FACE_SCALE),
                             Max2(face_min, secondary.size), max_size),
                       w, h, FACE_TOP_RATIO)>>)
        zoom(min_x, max_x, min_y, max_y, body_size, face_size) ==
            Some(<<crop_from_bounds(min_x, max_x, min_y, max_y, body_size, w, h,
                                    BODY_TOP_RATIO),
                   crop_from_bounds(min_x, max_x, min_y, max_y, face_size, w, h,
                                    FACE_TOP_RATIO)>>)
        sized(relevant, min_x, max_x, min_y, max_y, min_size, face_size) ==
            IF ~(max_x - min_x <= max_size /\ max_y - min_y <= max_size)
               /\ Len(relevant) >= 2
            THEN two_subjects(relevant[1].box, relevant[2].box)
            ELSE zoom(min_x, max_x, min_y, max_y,
                      clamp(MulRatio(face_size, BODY_SCALE), min_size, max_size),
                      face_size)
        bounded(relevant, min_x, max_x, min_y, max_y, min_size) ==
            sized(relevant, min_x, max_x, min_y, max_y, min_size,
                  clamp(MulRatio(Max2(Max2(max_x - min_x, max_y - min_y),
                                      largest_size(relevant)), FACE_SCALE),
                        min_size, max_size))
        plan(relevant) ==
            bounded(relevant, bounds_min_x(relevant), bounds_max_x(relevant),
                    bounds_min_y(relevant), bounds_max_y(relevant),
                    Max2(face_min, largest_size(relevant)))
        from_relevant(relevant) ==
            IF relevant = <<>> THEN None ELSE plan(by_size(relevant))
    IN  from_relevant(filter_relevant_detections(self, dets, w, h))

----------------------------------------------------------------------------
(* Still-image planner, src/src/image_pipeline.py                          *)
(*                                                                         *)
(* An image is its pixel size and what the backends report for it          *)
(* (`found`).  ProcessingOptions is a record of the fields the planner     *)
(* reads; motion_direction is None where the options object has no such    *)
(* attribute (getattr's default applies).                                  *)

MIN_FACE_DEFAULT == <<1, 10>>
NO_PAD == <<0, 1>>

ProcessingOptions(mode, crop, pad, face_detection_enabled, motion_enabled, motion_direction, fps) ==
    [mode |-> mode, crop |-> crop, pad |-> pad,
     face_detection_enabled |-> face_detection_enabled,
     motion_enabled |-> motion_enabled, motion_direction |-> motion_direction,
     fps |-> fps]

DefaultOptions == ProcessingOptions("auto", None, NO_PAD, TRUE, TRUE, None, "keep")

circle_base_size(w, h, pad) ==
    LET diameter == IF pad[1] # 0
                    THEN Max2(1, (Min2(w, h) * (pad[2] - pad[1])) \div pad[2])
                    ELSE Min2(w, h)
    IN  square_size_for_circle(diameter, ORIENTATION_CIRCLE_MARGIN)

center_square(w, h, pad) ==
    LET size == circle_base_size(w, h, pad)
    IN  CropBox((w - size) \div 2, (h - size) \div 2, size)

normalize_crop(w, h, box, allow_overflow) ==
    normalize_crop_with_overflow(w, h, box,
        IF allow_overflow THEN CROP_OVERFLOW_RATIO ELSE NO_OVERFLOW)

\* The crop determine_crop_box picks before its final normalization.
select_crop_box(w, h, found, opts, cropper) ==
    LET \* center - size / 2 with center = x + size / 2
        around(box) == CropBox((2 * box.x + box.size - box.size) \div 2,
                               (2 * box.y + box.size - box.size) \div 2, box.size)
        pick(base_crop, dets, combined, target, window) ==
            IF dets = <<>> THEN base_crop
            ELSE IF ~IsNone(combined) THEN Get(combined)
            ELSE IF ~IsNone(target) THEN around(Get(target).box)
            ELSE IF ~IsNone(window) THEN Get(window)
            ELSE base_crop
        detected(base_crop, self, dets) ==
            pick(base_crop, dets,
                 combine_detections(self, dets, w, h),
                 select_detection(self, dets, w, h),
                 focus_window(self, dets, w, h, base_crop.size))
        select(base_crop) ==
            IF opts.mode = "center" THEN base_crop
            ELSE IF opts.mode = "manual" /\ ~IsNone(opts.crop)
            THEN CropBox(Get(opts.crop).x, Get(opts.crop).y,
                         Min2(Get(opts.crop).w, Get(opts.crop).h))
            ELSE IF opts.face_detection_enabled /\ ~IsNone(cropper)
            THEN detected(base_crop, Get(cropper),
                          detect_subjects(Get(cropper), found, w, h))
            ELSE base_crop
    IN  select(center_square(w, h, opts.pad))

\* auto_detected of determine_crop_box: set in the detector branch whether
\* or not anything was detected.
auto_detected(opts, cropper) ==
    /\ opts.mode # "center"
    /\ ~(opts.mode = "manual" /\ ~IsNone(opts.crop))
    /\ opts.face_detection_enabled
    /\ ~IsNone(cropper)

determine_crop_box(w, h, found, opts, cropper) ==
    normalize_crop(w, h, select_crop_box(w, h, found, opts, cropper),
                   ~auto_detected(opts, cropper))

\* getattr(options, "motion_direction", "in") or "in", lower-cased.
effective_direction(opts) ==
    IF IsNone(opts.motion_direction) THEN "in" ELSE Get(opts.motion_direction)

\* Mutant: direction "out" replaces the start by the end and keeps the end.
oriented_no_swap(start, end, direction) ==
    IF direction = "out" THEN ManualCrop(end, end) ELSE ManualCrop(start, end)

oriented(start, end, direction) ==
    IF direction = "out" THEN ManualCrop(end, start) ELSE ManualCrop(start, end)

determine_motion_manual(w, h, found, opts, cropper) ==
    LET still(box) == ManualCrop(CropBox(box.x, box.y, box.size),
                                 CropBox(box.x, box.y, box.size))
        planned_motion(plan) ==
            IF IsNone(plan)
            THEN still(determine_crop_box(w, h, found, opts, cropper))
            ELSE oriented(normalize_crop(w, h, Get(plan)[1], FALSE),
                          normalize_crop(w, h, Get(plan)[2], FALSE),
                          effective_direction(opts))
        detected(self, dets) ==
            IF dets = <<>>
            THEN still(determine_crop_box(w, h, found, opts, cropper))
            ELSE planned_motion(plan_motion(self, dets, w, h))
    IN  IF ~opts.motion_enabled
        THEN still(normalize_crop(w, h, center_square(w, h, opts.pad), FALSE))
        ELSE IF ~opts.face_detection_enabled \/ IsNone(cropper)
        THEN still(normalize_crop(w, h, center_square(w, h, opts.pad), FALSE))
        ELSE detected(Get(cropper), detect_subjects(Get(cropper), found, w, h))

----------------------------------------------------------------------------
(* Frame sequence generator and process_image, src/src/image_pipeline.py   *)
(*                                                                         *)
(* A rendered frame is modelled by the crop box it was rendered from.      *)

IMAGE_CLIP_DURATION == 5
IMAGE_START_HOLD == <<1, 2>>
IMAGE_END_HOLD == <<1, 2>>
\* max(0.0, IMAGE_CLIP_DURATION - IMAGE_START_HOLD - IMAGE_END_HOLD)
IMAGE_TRANSITION_DURATION ==
    <<Max2(0, IMAGE_CLIP_DURATION * IMAGE_START_HOLD[2] * IMAGE_END_HOLD[2]
              - IMAGE_START_HOLD[1] * IMAGE_END_HOLD[2]
              - IMAGE_END_HOLD[1] * IMAGE_START_HOLD[2]),
      IMAGE_START_HOLD[2] * IMAGE_END_HOLD[2]>>
DEFAULT_IMAGE_FPS == 30

\* int(round(num / den)) for num >= 0: Python rounds halves to even.
RoundHalfEven(num, den) ==
    LET q == num \div den
        r2 == 2 * (num % den)
    IN  IF r2 < den THEN q
        ELSE IF r2 > den THEN q + 1
        ELSE IF q % 2 = 0 THEN q ELSE q + 1

\* float(options.fps) for the frame rates written as decimal strings; any
\* other text raises ValueError, reported as None.
parse_fps(text) ==
    CASE text = "0" -> Some(0)
      [] text = "1" -> Some(1)
      [] text = "2" -> Some(2)
      [] text = "3" -> Some(3)
      [] OTHER -> None

preferred_fps(opts) ==
    IF opts.fps = "keep" THEN DEFAULT_IMAGE_FPS
    ELSE IF IsNone(parse_fps(opts.fps)) THEN DEFAULT_IMAGE_FPS
    ELSE Max2(1, Get(parse_fps(opts.fps)))

\* start.v + (end.v - start.v) * fraction, fraction = <<num, den>> in [0, 1].
interpolate_crop(start, end, fraction) ==
    LET f == <<clamp(fraction[1], 0, fraction[2]), fraction[2]>>
    IN  CropBox(start.x + MulRatio(end.x - start.x, f),
                start.y + MulRatio(end.y - start.y, f),
                start.size + MulRatio(end.size - start.size, f))

\* Mutant: the fraction is taken at index / steps.
eased_fraction_from_zero(index, steps) ==
    <<index * index * (3 * steps - 2 * index), steps * steps * steps>>

\* smoothstep of (index + 1) / steps as <<num, den>>.
eased_fraction(index, steps) ==
    LET i == index + 1
    IN  <<i * i * (3 * steps - 2 * i), steps * steps * steps>>

\* Mutant: the frames left over are not given to the transition.
fold_leftover_dropped(motion_frames, leftover) == motion_frames

\* if leftover > 0: motion_frames += leftover
fold_leftover(motion_frames, leftover) ==
    IF leftover > 0 THEN motion_frames + leftover ELSE motion_frames

\* <<start_hold_frames, motion_frames, end_hold_frames>>.
frame_counts(fps, duration, motion_enabled) ==
    LET total_frames == Max2(1, RoundHalfEven(duration * fps, 1))
    IN  IF ~motion_enabled THEN <<total_frames, 0, 0>>
        ELSE
        LET start_hold0 == Max2(1, RoundHalfEven(IMAGE_START_HOLD[1] * fps, IMAGE_START_HOLD[2]))
            end_hold0 == Max2(1, RoundHalfEven(IMAGE_END_HOLD[1] * fps, IMAGE_END_HOLD[2]))
            desired == Max2(0, RoundHalfEven(IMAGE_TRANSITION_DURATION[1] * fps,
                                             IMAGE_TRANSITION_DURATION[2]))
            available == Max2(0, total_frames - start_hold0 - end_hold0)
            motion0 == Min2(available, desired)
            leftover == total_frames - (start_hold0 + end_hold0 + motion0)
            motion1 == fold_leftover(motion0, leftover)
            remainder == total_frames - (start_hold0 + end_hold0 + motion1)
        IN  IF remainder < 0
            THEN LET reduction == -remainder
                     reduce_start == Min2(reduction, start_hold0 - 1)
                     start_hold == start_hold0 - reduce_start
                     rest == reduction - reduce_start
                     end_hold == IF rest > 0 THEN Max2(0, end_hold0 - rest) ELSE end_hold0
                 IN  <<start_hold, Max2(0, total_frames - start_hold - end_hold), end_hold>>
            ELSE <<start_hold0, motion1, end_hold0>>

\* The crops of the frames _iter_motion_frames yields, in order.
iter_motion_frames(start, end, fps, duration, motion_enabled) ==
    LET yielded(start_hold_frames, motion_frames, end_hold_frames) ==
            [i \in 1..start_hold_frames |-> start]
            \o (IF motion_enabled /\ motion_frames > 0
                THEN [i \in 1..motion_frames |->
                         interpolate_crop(start, end,
                             eased_fraction(i - 1, motion_frames + 1))]
                ELSE [i \in 1..Max2(0, motion_frames) |-> start])
            \o [i \in 1..end_hold_frames |-> end]
        counted(counts) == yielded(counts[1], counts[2], counts[3])
    IN  counted(frame_counts(fps, duration, motion_enabled))

\* Mutant: the start crop is kept when motion is disabled.
generator_start_kept(start_crop, end_crop, motion_enabled) == start_crop

\* process_image: without motion the start crop is replaced by the end crop.
generator_start(start_crop, end_crop, motion_enabled) ==
    IF ~motion_enabled THEN CropBox(end_crop.x, end_crop.y, end_crop.size)
    ELSE start_crop

\* The start and end crop process_image hands to _iter_motion_frames.
process_image_crops(w, h, found, opts, cropper, manual) ==
    LET handed(start_crop, end_crop) ==
            ManualCrop(generator_start(start_crop, end_crop, opts.motion_enabled),
                       end_crop)
        moving(auto_manual) ==
            handed(normalize_crop(w, h, auto_manual.start, FALSE),
                   normalize_crop(w, h, auto_manual.end, FALSE))
        static(start_crop) == handed(start_crop, start_crop)
    IN  IF ~IsNone(manual)
        THEN handed(normalize_crop(w, h, Get(manual).start, TRUE),
                    normalize_crop(w, h, Get(manual).end, TRUE))
        ELSE IF opts.motion_enabled
        THEN moving(determine_motion_manual(w, h, found, opts, cropper))
        ELSE static(normalize_crop(w, h,
                        determine_crop_box(w, h, found, opts, cropper), FALSE))

----------------------------------------------------------------------------
(* Temporal tracker, src/src/face_cropper.py, and the video pipeline,      *)
(* src/src/video_pipeline.py                                               *)
(*                                                                         *)
(* The tracker fields of a FaceCropper are passed as the record            *)
(* [last_smoothed, lost_frames, smoother_state]; track returns the crop    *)
(* together with the fields as it leaves them.                             *)

SMOOTHING == <<2, 5>>
MAX_STEP_FRACTION == <<3, 20>>

Tracker(last, lost, state) ==
    [last_smoothed |-> last, lost_frames |-> lost, smoother_state |-> state]

\* The fields as FaceCropper.__init__ leaves them.
NewTracker == Tracker(None, 0, None)

\* ExponentialSmoother.update: the state after the update, which is also
\* the box it returns.
smoother_update(state, box) ==
    IF IsNone(state) THEN CropBox(box.x, box.y, box.size)
    ELSE LET blend(new, old) ==
                 (SMOOTHING[1] * new + (SMOOTHING[2] - SMOOTHING[1]) * old)
                     \div SMOOTHING[2]
         IN  CropBox(blend(box.x, Get(state).x), blend(box.y, Get(state).y),
                     blend(box.size, Get(state).size))

\* Mutant: the selected detection is preferred to the combined box.
track_focus_select_first(self, dets, w, h, fallback_crop) ==
    LET from_combined(combined) ==
            IF ~IsNone(combined) THEN combined
            ELSE focus_window(self, dets, w, h, fallback_crop.size)
        from_target(target) ==
            IF ~IsNone(target)
            THEN Some(CropBox(Get(target).box.x, Get(target).box.y,
                              Get(target).box.size))
            ELSE from_combined(combine_detections(self, dets, w, h))
    IN  from_target(select_detection(self, dets, w, h))

\* The focus of track: the combined box, else the selected detection, else
\* the focus window of the fallback's size.
track_focus(self, dets, w, h, fallback_crop) ==
    LET from_target(target) ==
            IF ~IsNone(target)
            THEN Some(CropBox(Get(target).box.x, Get(target).box.y,
                              Get(target).box.size))
            ELSE focus_window(self, dets, w, h, fallback_crop.size)
        from_combined(combined) ==
            IF ~IsNone(combined) THEN combined
            ELSE from_target(select_detection(self, dets, w, h))
    IN  from_combined(combine_detections(self, dets, w, h))

\* Mutant: the previous box is kept however long the focus is lost.
coasting_unbounded(last, lost, gap) == ~IsNone(last)

\* Mutant: the gap is exhausted one frame early.
coasting_exclusive(last, lost, gap) == ~IsNone(last) /\ lost < gap

\* The previous box is kept for a frame without focus.
coasting(last, lost, gap) == ~IsNone(last) /\ lost <= gap

\* last + copysign(max_step, delta) where |delta| > max_step.
limit_step(value, last, max_step) ==
    IF Abs(value - last) > max_step
    THEN IF value - last < 0 THEN last - max_step ELSE last + max_step
    ELSE value

\* track after the focus is known: [returned, tracker].
track_with_focus(tracker, gap, frame_focus, w, h, fallback_crop) ==
    LET last == tracker.last_smoothed
        result(box, after) == [returned |-> box, tracker |-> after]
        stored(box) == result(box, Tracker(Some(box), 0, tracker.smoother_state))
        smoothed_to(state, window_size, max_step) ==
            LET stepped == ~IsNone(last) /\ MAX_STEP_FRACTION[1] > 0
                x == IF stepped THEN limit_step(state.x, Get(last).x, max_step)
                     ELSE state.x
                y == IF stepped THEN limit_step(state.y, Get(last).y, max_step)
                     ELSE state.y
                box == CropBox(clamp(x, 0, Max2(0, w - window_size)),
                               clamp(y, 0, Max2(0, h - window_size)), window_size)
            IN  result(box, Tracker(Some(box), 0, Some(state)))
    IN  IF IsNone(frame_focus)
        THEN IF coasting(last, tracker.lost_frames + 1, gap)
             THEN result(CropBox(clamp(Get(last).x, 0, Max2(0, w - Get(last).size)),
                                 clamp(Get(last).y, 0, Max2(0, h - Get(last).size)),
                                 Get(last).size),
                         Tracker(last, tracker.lost_frames + 1, tracker.smoother_state))
             ELSE result(fallback_crop, NewTracker)
        ELSE smoothed_to(smoother_update(tracker.smoother_state, Get(frame_focus)),
                         Get(frame_focus).size,
                         MulRatio(Get(frame_focus).size, MAX_STEP_FRACTION))

\* FaceCropper.track: [returned, tracker, focus, detections].
track(self, tracker, gap, found, w, h, fallback_crop) ==
    LET finish(dets, frame_focus, outcome) ==
            [returned |-> outcome.returned, tracker |-> outcome.tracker,
             focus |-> frame_focus, detections |-> dets]
        focused(dets, frame_focus) ==
            finish(dets, frame_focus,
                   track_with_focus(tracker, gap, frame_focus, w, h, fallback_crop))
        detected(dets) == focused(dets, track_focus(self, dets, w, h, fallback_crop))
    IN  detected(detect_subjects(self, found, w, h))

center_crop(w, h, pad) ==
    LET size == IF pad[1] # 0
                THEN Max2(1, (Min2(w, h) * (pad[2] - pad[1])) \div pad[2])
                ELSE Min2(w, h)
    IN  CropBox((w - size) \div 2, (h - size) \div 2, size)

\* _compute_crop: [crop, returned, tracker, focus, detections]; `returned`
\* is None where track is not called.
compute_crop(opts, cropper, tracker, gap, found, w, h, fallback_crop) ==
    LET normalized_crop(box) ==
            normalize_crop_with_overflow(w, h, box, CROP_OVERFLOW_RATIO)
        untracked(box) ==
            [crop |-> normalized_crop(box), returned |-> None, tracker |-> tracker,
             focus |-> None, detections |-> <<>>]
        tracked(outcome) ==
            [crop |-> normalized_crop(outcome.returned),
             returned |-> Some(outcome.returned), tracker |-> outcome.tracker,
             focus |-> outcome.focus, detections |-> outcome.detections]
    IN  IF opts.mode = "center" THEN untracked(fallback_crop)
        ELSE IF opts.mode = "manual" /\ ~IsNone(opts.crop)
        THEN untracked(CropBox(Get(opts.crop).x, Get(opts.crop).y,
                               Min2(Get(opts.crop).w, Get(opts.crop).h)))
        ELSE IF opts.face_detection_enabled /\ ~IsNone(cropper)
        THEN tracked(track(Get(cropper), tracker, gap, found, w, h, fallback_crop))
        ELSE untracked(fallback_crop)

----------------------------------------------------------------------------
(* Values the variables of the other specifications rest at *)

IdleGeom ==
    /\ crop_box = CropBox(0, 0, 1)
    /\ overflow_ratio = NO_OVERFLOW
    /\ normalized = None
    /\ renormalized = None

IdleImage ==
    /\ options = <<>>
    /\ backend = <<>>
    /\ face_cropper = None
    /\ manual_crop = None
    /\ detections = <<>>
    /\ planned = None
    /\ frames = <<>>

IdleClip ==
    /\ clip_fps = 1
    /\ clip_duration = 0
    /\ frame_plan = <<>>

IdleBatch ==
    /\ images = 0
    /\ videos = 0
    /\ max_workers = 1
    /\ futures = <<>>
    /\ collected = {}
    /\ thread_item = <<>>
    /\ thread_local = <<>>
    /\ detectors = <<>>
    /\ video_cursor = 0
    /\ video_results = <<>>
    /\ logged = {}

IdleGui ==
    /\ preview_cropper = FALSE
    /\ auto_task_token = 0
    /\ bulk_auto_token = 0
    /\ next_token = 0
    /\ gui_threads = {}
    /\ callbacks = <<>>
    /\ controls_enabled = FALSE
    /\ motion_enabled_var = FALSE
    /\ manual_static = TRUE

IdleEncode ==
    /\ out_size = 0
    /\ cropped = <<>>
    /\ buffers = <<>>

IdleConv ==
    /\ raw_rect = <<>>
    /\ bases = <<>>
    /\ boxes = <<>>

IdleFocus ==
    /\ focus_dets = <<>>
    /\ focus_size = 0
    /\ focus_box = <<>>

IdleOpt ==
    /\ caller = ""
    /\ argv = <<>>
    /\ built = <<>>
    /\ direction_read = <<>>

IdleOut ==
    /\ sources = <<>>
    /\ pool_size = 0
    /\ item_state = <<>>
    /\ out_files = {}
    /\ skipped_for = {}
    /\ overwrote = {}

IdleProc ==
    /\ media_kind = ""
    /\ frames_left = 0
    /\ frames_sent = 0
    /\ cap_open = FALSE
    /\ pipe_open = FALSE
    /\ proc_state = "none"
    /\ raised = <<>>

IdleFilter ==
    /\ candidate_list = <<>>
    /\ relevant_list = <<>>

IdleTracker ==
    /\ last_smoothed = None
    /\ lost_frames = 0
    /\ smoother_state = None
    /\ max_tracking_gap = 0

IdleVideo ==
    /\ video_index = 0
    /\ frame_index = 0
    /\ fallback = CropBox(0, 0, 1)
    /\ focus = None
    /\ prev_smoothed = None
    /\ since_detection = -1
    /\ prev_since = -1
    /\ prev_state = None
    /\ returned = None
    /\ written = None

----------------------------------------------------------------------------
(* Specification SpecGeom: normalize_crop_with_overflow applied to a box,  *)
(* and applied again to its own result.                                    *)

BoxPositions == {-70, -10, 0, 5, 30, 90}
BoxSizes == {0, 1, 20, 61, 70, 80, 100}
OverflowRatios == {NO_OVERFLOW, <<1, 4>>, CROP_OVERFLOW_RATIO}

InitGeom ==
    /\ pc = "input"
    /\ \E fs \in FrameSizes : width = fs[1] /\ height = fs[2]
    /\ crop_box \in {CropBox(x, y, s) : x \in BoxPositions, y \in BoxPositions,
                                        s \in BoxSizes}
    /\ overflow_ratio \in OverflowRatios
    /\ normalized = None
    /\ renormalized = None
    /\ IdleImage /\ IdleTracker /\ IdleVideo
    /\ IdleClip
    /\ IdleBatch /\ IdleGui
    /\ IdleEncode
    /\ IdleFilter
    /\ IdleConv
    /\ IdleFocus
    /\ IdleOpt
    /\ IdleOut
    /\ IdleProc

Normalize ==
    /\ pc = "input"
    /\ normalized' = Some(normalize_crop_with_overflow(width, height, crop_box,
                                                       overflow_ratio))
    /\ pc' = "normalized"
    /\ UNCHANGED <<width, height, crop_box, overflow_ratio, renormalized,
                   imageVars, trackerVars, videoVars, clipVars, batchVars, guiVars, encodeVars, filterVars, convVars, focusVars, optVars, outVars, procVars>>

NormalizeAgain ==
    /\ pc = "normalized"
    /\ renormalized' = Some(normalize_crop_with_overflow(width, height,
                                Get(normalized), overflow_ratio))
    /\ pc' = "renormalized"
    /\ UNCHANGED <<width, height, crop_box, overflow_ratio, normalized,
                   imageVars, trackerVars, videoVars, clipVars, batchVars, guiVars, encodeVars, filterVars, convVars, focusVars, optVars, outVars, procVars>>

NextGeom == Normalize \/ NormalizeAgain

SpecGeom == InitGeom /\ [][NextGeom]_vars

\* Within [-size*ratio, dimension + size*ratio], compared exactly.
WithinOverflow(pos, size, dimension, ratio) ==
    /\ ratio[2] * pos >= -(size * ratio[1])
    /\ ratio[2] * (pos + size) <= ratio[2] * dimension + size * ratio[1]

\* The box cannot fit: size*(1 - 2*ratio) exceeds the dimension.
TooLargeFor(size, dimension, ratio) ==
    size * (ratio[2] - 2 * ratio[1]) > dimension * ratio[2]

\* C3 as stated: for every width, height, box and overflow ratio the
\* normalized size is in [1, max(width, height)] and x, x+size lie within
\* [-size*overflow, width + size*overflow], likewise y, y+size for height.
C3_NormalizedWithinOverflow ==
    ~IsNone(normalized) =>
        LET n == Get(normalized)
        IN  /\ 1 <= n.size /\ n.size <= Max2(width, height)
            /\ WithinOverflow(n.x, n.size, width, overflow_ratio)
            /\ WithinOverflow(n.y, n.size, height, overflow_ratio)

\* C3 amended: the normalized size is in [1, max(width, height)]; x and y
\* are never below -size*overflow; x+size is at most width + size*overflow
\* unless size*(1 - 2*overflow) exceeds the width, and then the box is
\* pinned at x = -size*overflow (likewise y and the height).
C3_NormalizedWithinOverflowOrPinned ==
    ~IsNone(normalized) =>
        LET n == Get(normalized)
            r == overflow_ratio
            AxisOk(pos, dimension) ==
                /\ r[2] * pos >= -(n.size * r[1])
                /\ IF TooLargeFor(n.size, dimension, r)
                   THEN pos = -MulRatio(n.size, r)
                   ELSE WithinOverflow(pos, n.size, dimension, r)
        IN  /\ 1 <= n.size /\ n.size <= Max2(width, height)
            /\ AxisOk(n.x, width)
            /\ AxisOk(n.y, height)

\* Witness of C3: a box wider than the short side was normalized without
\* overflow and is pinned at 0 on that axis.
C3_Witness ==
    /\ ~IsNone(normalized)
    /\ overflow_ratio = NO_OVERFLOW
    /\ Get(normalized).size > height
    /\ Get(normalized).y = 0
    /\ crop_box.size > Max2(width, height)

\* C4: normalizing an already normalized box with the same width, height
\* and overflow ratio returns the same box.
C4_NormalizeIdempotent ==
    ~IsNone(renormalized) => renormalized = normalized

\* Witness of C4: the first normalization changed the box and the second
\* one was applied to its result.
C4_Witness ==
    /\ ~IsNone(renormalized)
    /\ Get(normalized) # crop_box
    /\ Get(normalized).size # crop_box.size
    /\ Get(normalized).x # crop_box.x

----------------------------------------------------------------------------
(* Specification SpecPlan: the planner entry points determine_crop_box and *)
(* determine_motion_manual applied to an image.                            *)

MaxDetections == 2

PrimaryRaws == {RawDetection(8, 8, 16, 16, 90), RawDetection(12, 8, 16, 16, 50),
                RawDetection(40, 36, 12, 14, 80), RawDetection(26, 22, 10, 10, 45)}
PeopleRaws == {RawDetection(30, 10, 20, 40, 80)}
SaliencyRaws == {RawDetection(5, 5, 50, 40, 0)}

RECURSIVE SeqsUpTo(_, _)
SeqsUpTo(S, n) ==
    IF n = 0 THEN {<<>>}
    ELSE LET shorter == SeqsUpTo(S, n - 1)
         IN  shorter \cup {Append(q, e) : q \in shorter, e \in S}

Priorities == {"largest", "center", "all"}
Directions == {None, Some("in"), Some("out")}

InitPlan ==
    /\ pc = "image"
    /\ \E fs \in FrameSizes : width = fs[1] /\ height = fs[2]
    /\ backend \in [primary : SeqsUpTo(PrimaryRaws, MaxDetections),
                    people : SeqsUpTo(PeopleRaws, 1),
                    saliency : SeqsUpTo(SaliencyRaws, 1)]
    /\ face_cropper \in {Some(FaceCropper(MIN_FACE_DEFAULT, p, mp)) :
                            p \in Priorities, mp \in BOOLEAN}
    /\ options = DefaultOptions
    /\ manual_crop = None
    /\ detections = <<>>
    /\ planned = None
    /\ frames = <<>>
    /\ IdleGeom /\ IdleTracker /\ IdleVideo
    /\ IdleClip
    /\ IdleBatch /\ IdleGui
    /\ IdleEncode
    /\ IdleFilter
    /\ IdleConv
    /\ IdleFocus
    /\ IdleOpt
    /\ IdleOut
    /\ IdleProc

\* The detections the planner saw, <<>> where it did not run the detector.
detections_seen(opts, cropper, ran) ==
    IF ran /\ ~IsNone(cropper)
    THEN detect_subjects(Get(cropper), backend, width, height)
    ELSE <<>>

DetermineCropBox ==
    /\ pc = "image"
    /\ \E mode \in {"auto", "center"}, enabled \in BOOLEAN :
        /\ options' = [DefaultOptions EXCEPT !.mode = mode,
                                             !.face_detection_enabled = enabled,
                                             !.motion_enabled = FALSE]
        /\ \E crop \in {determine_crop_box(width, height, backend, options',
                                            face_cropper)} :
               planned' = Some(ManualCrop(crop, crop))
        /\ detections' = detections_seen(options', face_cropper,
                                         auto_detected(options', face_cropper))
    /\ pc' = "static"
    /\ UNCHANGED <<width, height, backend, face_cropper, manual_crop, frames,
                   geomVars, trackerVars, videoVars, clipVars, batchVars, guiVars, encodeVars, filterVars, convVars, focusVars, optVars, outVars, procVars>>

DetermineMotionManual ==
    /\ pc = "image"
    /\ \E motion \in BOOLEAN, enabled \in BOOLEAN, direction \in Directions :
        /\ options' = [DefaultOptions EXCEPT !.face_detection_enabled = enabled,
                                             !.motion_enabled = motion,
                                             !.motion_direction = direction]
        /\ planned' = Some(determine_motion_manual(width, height, backend, options',
                                                   face_cropper))
        /\ detections' = detections_seen(options', face_cropper, motion /\ enabled)
    /\ pc' = "motion"
    /\ UNCHANGED <<width, height, backend, face_cropper, manual_crop, frames,
                   geomVars, trackerVars, videoVars, clipVars, batchVars, guiVars, encodeVars, filterVars, convVars, focusVars, optVars, outVars, procVars>>

\* FaceCropper.track on the image as the first frame of a video, with the
\* centre crop as fallback.
TrackImage ==
    /\ pc = "image"
    /\ fallback' = center_crop(width, height, options.pad)
    /\ \E outcome \in {track(Get(face_cropper), NewTracker, max_tracking_gap,
                              backend, width, height, fallback')} :
        /\ last_smoothed' = outcome.tracker.last_smoothed
        /\ lost_frames' = outcome.tracker.lost_frames
        /\ smoother_state' = outcome.tracker.smoother_state
        /\ detections' = outcome.detections
        /\ focus' = outcome.focus
        /\ returned' = Some(outcome.returned)
    /\ pc' = "tracked"
    /\ UNCHANGED <<width, height, options, backend, face_cropper, manual_crop,
                   planned, frames, max_tracking_gap, video_index, frame_index,
                   prev_smoothed, since_detection, prev_since, prev_state, written,
                   geomVars, clipVars, batchVars, guiVars, encodeVars, filterVars, convVars, focusVars, optVars, outVars, procVars>>

NextPlan == DetermineCropBox \/ DetermineMotionManual \/ TrackImage

SpecPlan == InitPlan /\ [][NextPlan]_vars

\* The detector ran in the step that led here.
DetectorRan ==
    /\ pc \in {"static", "motion"}
    /\ options.face_detection_enabled
    /\ options.mode = "auto"
    /\ pc = "motion" => options.motion_enabled

Candidates == collect_detections(Get(face_cropper), backend, width, height)
Relevant == filter_relevant_detections(Get(face_cropper), detections, width, height)

\* C5: deduplication visits the candidates in descending (score, size)
\* order and drops a candidate whose square-IoU with a kept one is >= 0.4:
\* two candidates with IoU >= 0.4 merge into exactly one, which carries the
\* higher score and that candidate's box; no two candidates of the result
\* have IoU >= 0.4; every dropped candidate overlaps (IoU >= 0.4) a kept one
\* whose score is at least its own.
C5_Deduplication ==
    DetectorRan =>
        LET cands == Candidates
            Overlap(a, b) == square_iou_at_least(a.box, b.box, DUPLICATE_IOU)
        IN  /\ \A i \in 1..Len(detections) : InSeq(detections[i], cands)
            /\ \A i, j \in 1..Len(detections) :
                   i # j => ~Overlap(detections[i], detections[j])
            /\ \A i \in 1..Len(detections) : \A j \in 1..Len(detections) :
                   i < j => score_size_key(detections[i]) >= score_size_key(detections[j])
            /\ \A i \in 1..Len(cands) :
                   \/ InSeq(cands[i], detections)
                   \/ \E k \in 1..Len(detections) :
                          /\ Overlap(cands[i], detections[k])
                          /\ detections[k].score >= cands[i].score
            /\ (Len(cands) = 2 /\ Overlap(cands[1], cands[2])) =>
                   /\ Len(detections) = 1
                   /\ detections[1].score = Max2(cands[1].score, cands[2].score)
                   /\ \E i \in 1..2 : /\ cands[i].score = detections[1].score
                                      /\ cands[i].box = detections[1].box

\* Witness of C5: two overlapping candidates, the weaker one reported
\* first, were merged into the stronger one.
C5_Witness ==
    /\ DetectorRan
    /\ Len(Candidates) = 2
    /\ square_iou_at_least(Candidates[1].box, Candidates[2].box, DUPLICATE_IOU)
    /\ Candidates[1].score < Candidates[2].score
    /\ Candidates[1].box # Candidates[2].box
    /\ detections = <<Candidates[2]>>

\* C6: with exactly one relevant detection combine_detections returns null
\* and the static planner with priority "largest" returns that detection's
\* box unchanged (same x, y, size after the final normalization).
C6_SingleDetectionUnchanged ==
    (/\ pc = "static" /\ DetectorRan
     /\ Get(face_cropper).face_priority = "largest") =>
        LET rel == Relevant
        IN  Len(rel) = 1 =>
              /\ IsNone(combine_detections(Get(face_cropper), detections, width, height))
              /\ Get(planned).start = rel[1].box
              /\ Get(planned).end = rel[1].box

\* Witness of C6: one detection, of a box that is not the centre fallback.
C6_Witness ==
    /\ pc = "static" /\ DetectorRan
    /\ Get(face_cropper).face_priority = "largest"
    /\ Len(Relevant) = 1
    /\ Len(Candidates) = 2
    /\ Get(planned).start = detections[1].box
    /\ Get(planned).start # normalize_crop(width, height,
                                center_square(width, height, options.pad), FALSE)

\* C7: for identical detections and frame size the motion plan produced
\* with direction "out" has start and end exactly swapped relative to the
\* plan produced with direction "in".
C7_DirectionSwaps ==
    (pc = "motion" /\ options.motion_direction = Some("out")) =>
        LET inward == determine_motion_manual(width, height, backend,
                          [options EXCEPT !.motion_direction = Some("in")],
                          face_cropper)
        IN  /\ Get(planned).start = inward.end
            /\ Get(planned).end = inward.start

\* Witness of C7: a plan with direction "out" whose endpoints differ.
C7_Witness ==
    /\ pc = "motion"
    /\ options.motion_direction = Some("out")
    /\ Get(planned).start # Get(planned).end
    /\ Get(planned).start.size < Get(planned).end.size

\* The square centred in the frame on both axes (to the pixel) whose side
\* is min(width, height) / (1 - 2 * circle margin).
IsCenteredCircleSquare(box) ==
    /\ box.size = DivRatio(Min2(width, height),
                           circle_fraction(ORIENTATION_CIRCLE_MARGIN))
    /\ Abs(2 * box.x + box.size - width) <= 1
    /\ Abs(2 * box.y + box.size - height) <= 1

\* C8: with zero detections, mode "auto" and motion enabled the planner
\* outputs ManualCrop(start == end) whose box is the square centred on the
\* frame centre on both axes with side min(width, height) adjusted for the
\* circle margin.
C8_NoDetectionCenteredSquare ==
    (/\ pc = "motion" /\ DetectorRan
     /\ detections = <<>>) =>
        /\ Get(planned).start = Get(planned).end
        /\ IsCenteredCircleSquare(Get(planned).start)

\* C9: for two or more relevant detections combine_detections returns one
\* square of side clamp(max(coverWidth, coverHeight, largestSize) * 1.05,
\* max(minFaceSize, largestSize), maxCropSize(width, height)) that covers
\* all of them on both axes.
C9_CombineCovers ==
    DetectorRan =>
        LET self == Get(face_cropper)
            rel == Relevant
            combined == combine_detections(self, detections, width, height)
            cover == Max2(Max2(bounds_max_x(rel) - bounds_min_x(rel),
                               bounds_max_y(rel) - bounds_min_y(rel)),
                          largest_size(rel))
        IN  Len(rel) >= 2 =>
            /\ ~IsNone(combined)
            /\ Get(combined).size =
                   clamp(MulRatio(cover, COVER_SCALE),
                         Max2(min_face_size(self, width, height), largest_size(rel)),
                         max_crop_size(width, height))
            /\ \A i \in 1..Len(rel) :
                   /\ Get(combined).x <= rel[i].box.x
                   /\ Get(combined).y <= rel[i].box.y
                   /\ Get(combined).x + Get(combined).size
                          >= rel[i].box.x + rel[i].box.size
                   /\ Get(combined).y + Get(combined).size
                          >= rel[i].box.y + rel[i].box.size
            /\ pc = "static" =>
                   Get(planned).start = normalize_crop(width, height, Get(combined), FALSE)

\* Witness of C9: two relevant detections far apart were combined, and the
\* side is the enlarged cover, not a clamp limit.
C9_Witness ==
    /\ pc = "static" /\ DetectorRan
    /\ LET rel == Relevant
           combined == combine_detections(Get(face_cropper), detections, width, height)
       IN  /\ Len(rel) = 2
           /\ ~IsNone(combined)
           /\ Get(combined).size < max_crop_size(width, height)
           /\ Get(combined).size > largest_size(rel)
           /\ bounds_max_x(rel) - bounds_min_x(rel) > largest_size(rel)

----------------------------------------------------------------------------
(* Specification SpecImage: process_image on one still image, with or      *)
(* without a manual override, up to the frames handed to the encoder.      *)

ManualBoxes == {CropBox(0, 0, 60), CropBox(10, 5, 30), CropBox(-20, 10, 50)}
FpsChoices == {"keep", "0", "1", "2", "3"}

InitImage ==
    /\ pc = "image"
    /\ \E fs \in FrameSizes : width = fs[1] /\ height = fs[2]
    /\ backend \in [primary : SeqsUpTo(PrimaryRaws, 1), people : {<<>>},
                    saliency : SeqsUpTo(SaliencyRaws, 1)]
    /\ face_cropper \in {None, Some(FaceCropper(MIN_FACE_DEFAULT, "largest", TRUE))}
    /\ options \in {[DefaultOptions EXCEPT !.motion_enabled = m, !.fps = f,
                                           !.face_detection_enabled = e] :
                       m \in BOOLEAN, f \in FpsChoices, e \in BOOLEAN}
    /\ manual_crop \in {None} \cup {Some(ManualCrop(a, b)) : a, b \in ManualBoxes}
    /\ detections = <<>>
    /\ planned = None
    /\ frames = <<>>
    /\ IdleGeom /\ IdleTracker /\ IdleVideo
    /\ IdleClip
    /\ IdleBatch /\ IdleGui
    /\ IdleEncode
    /\ IdleFilter
    /\ IdleConv
    /\ IdleFocus
    /\ IdleOpt
    /\ IdleOut
    /\ IdleProc

ProcessImage ==
    /\ pc = "image"
    /\ planned' = Some(process_image_crops(width, height, backend, options,
                                           face_cropper, manual_crop))
    /\ frames' = iter_motion_frames(Get(planned').start, Get(planned').end,
                                    preferred_fps(options), IMAGE_CLIP_DURATION,
                                    options.motion_enabled)
    /\ pc' = "encoded"
    /\ UNCHANGED <<width, height, options, backend, face_cropper, manual_crop,
                   detections, geomVars, trackerVars, videoVars, clipVars, batchVars, guiVars, encodeVars, filterVars, convVars, focusVars, optVars, outVars, procVars>>

NextImage == ProcessImage

SpecImage == InitImage /\ [][NextImage]_vars

\* The end crop process_image derives from what it was given.
GivenEndCrop ==
    IF ~IsNone(manual_crop)
    THEN normalize_crop(width, height, Get(manual_crop).end, TRUE)
    ELSE normalize_crop(width, height,
             determine_crop_box(width, height, backend, options, face_cropper), FALSE)

\* C10: if motionEnabled is false, every emitted frame is rendered from
\* the end crop only, for any start and end crop passed in.
C10_NoMotionEndCropOnly ==
    (pc = "encoded" /\ ~options.motion_enabled) =>
        /\ Len(frames) >= 1
        /\ \A i \in 1..Len(frames) : frames[i] = GivenEndCrop

\* Witness of C10: a manual override whose start and end crops differ was
\* processed with motion disabled.
C10_Witness ==
    /\ pc = "encoded" /\ ~options.motion_enabled
    /\ ~IsNone(manual_crop)
    /\ normalize_crop(width, height, Get(manual_crop).start, TRUE)
           # normalize_crop(width, height, Get(manual_crop).end, TRUE)
    /\ Len(frames) > 1

----------------------------------------------------------------------------
(* Specification SpecVideo: _process_videos runs process_video over the    *)
(* videos of a batch with the one FaceCropper it created; process_video    *)
(* tracks every frame of its video.                                        *)

MaxVideos == 2
MaxFrames == 3
MaxGap == 1

\* What the detector backends report for a frame.
FrameFinds ==
    {[primary |-> q, people |-> <<>>, saliency |-> <<>>] :
        q \in {<<>>, <<RawDetection(40, 36, 12, 14, 80)>>,
               <<RawDetection(8, 8, 16, 16, 90), RawDetection(40, 36, 12, 14, 80)>>}}

InitVideo ==
    /\ pc = "batch"
    /\ width = 0 /\ height = 0
    /\ options = DefaultOptions
    /\ backend = <<>>
    /\ face_cropper = Some(FaceCropper(MIN_FACE_DEFAULT, "largest", TRUE))
    /\ manual_crop = None
    /\ detections = <<>>
    /\ planned = None
    /\ frames = <<>>
    /\ last_smoothed = NewTracker.last_smoothed
    /\ lost_frames = NewTracker.lost_frames
    /\ smoother_state = NewTracker.smoother_state
    /\ max_tracking_gap \in 0..MaxGap
    /\ IdleGeom /\ IdleVideo
    /\ IdleClip
    /\ IdleBatch /\ IdleGui
    /\ IdleEncode
    /\ IdleFilter
    /\ IdleConv
    /\ IdleFocus
    /\ IdleOpt
    /\ IdleOut
    /\ IdleProc

\* process_video returns at once: the output is newer than the source.
SkipVideo ==
    /\ pc = "batch"
    /\ video_index < MaxVideos
    /\ video_index' = video_index + 1
    /\ UNCHANGED <<pc, width, height, frame_index, fallback, focus, prev_smoothed,
                   since_detection, prev_since, prev_state, returned, written,
                   geomVars, imageVars, trackerVars, clipVars, batchVars, guiVars, encodeVars, filterVars, convVars, focusVars, optVars, outVars, procVars>>

\* process_video opens the next video and derives its fallback crop.
OpenVideo ==
    /\ pc = "batch"
    /\ video_index < MaxVideos
    /\ \E fs \in FrameSizes :
        /\ width' = fs[1]
        /\ height' = fs[2]
        /\ fallback' = center_crop(fs[1], fs[2], options.pad)
    /\ video_index' = video_index + 1
    /\ frame_index' = 0
    /\ focus' = None
    /\ prev_smoothed' = None
    /\ since_detection' = -1
    /\ prev_since' = -1
    /\ prev_state' = None
    /\ returned' = None
    /\ written' = None
    /\ pc' = "video"
    /\ UNCHANGED <<geomVars, imageVars, trackerVars, clipVars, batchVars, guiVars, encodeVars, filterVars, convVars, focusVars, optVars, outVars, procVars>>

\* One pass of process_video's loop over the frames.
TrackFrame ==
    /\ pc = "video"
    /\ frame_index < MaxFrames
    /\ \E found \in FrameFinds :
        /\ backend' = found
        /\ \E outcome \in {compute_crop(options, face_cropper,
                               Tracker(last_smoothed, lost_frames, smoother_state),
                               max_tracking_gap, found, width, height, fallback)} :
            /\ last_smoothed' = outcome.tracker.last_smoothed
            /\ lost_frames' = outcome.tracker.lost_frames
            /\ smoother_state' = outcome.tracker.smoother_state
            /\ detections' = outcome.detections
            /\ focus' = outcome.focus
            /\ returned' = outcome.returned
            /\ written' = Some(outcome.crop)
    /\ prev_smoothed' = last_smoothed
    /\ prev_since' = since_detection
    /\ prev_state' = smoother_state
    /\ since_detection' = IF ~IsNone(focus') THEN 0
                          ELSE IF since_detection >= 0 THEN since_detection + 1
                          ELSE -1
    /\ frame_index' = frame_index + 1
    /\ UNCHANGED <<pc, width, height, video_index, fallback, max_tracking_gap,
                   options, face_cropper, manual_crop, planned, frames, geomVars, clipVars, batchVars, guiVars, encodeVars, filterVars, convVars, focusVars, optVars, outVars, procVars>>

\* The frames are exhausted: process_video closes the encoder and returns.
CloseVideo ==
    /\ pc = "video"
    /\ pc' = "batch"
    /\ UNCHANGED <<width, height, geomVars, imageVars, trackerVars, videoVars, clipVars, batchVars, guiVars, encodeVars, filterVars, convVars, focusVars, optVars, outVars, procVars>>

\* _process_videos is through its videos and closes the FaceCropper.
FinishBatch ==
    /\ pc = "batch"
    /\ pc' = "done"
    /\ UNCHANGED <<width, height, geomVars, imageVars, trackerVars, videoVars, clipVars, batchVars, guiVars, encodeVars, filterVars, convVars, focusVars, optVars, outVars, procVars>>

NextVideo == SkipVideo \/ OpenVideo \/ TrackFrame \/ CloseVideo \/ FinishBatch

SpecVideo == InitVideo /\ [][NextVideo]_vars

TrackerEmpty ==
    /\ last_smoothed = None
    /\ lost_frames = 0
    /\ smoother_state = None

\* C1: for every video of a batch the tracker state (last smoothed box,
\* lost-frame counter, EMA accumulator) is empty when the video's first
\* frame is tracked and is discarded when the video ends, so the crop of a
\* video's first frame is the one a new tracker computes.
C1_TrackerFreshPerVideo ==
    /\ (pc = "video" /\ frame_index = 0) => TrackerEmpty
    /\ (pc = "batch" /\ video_index >= 1) => TrackerEmpty
    /\ (pc = "video" /\ frame_index = 1) =>
           written = Some(compute_crop(options, face_cropper, NewTracker,
                                       max_tracking_gap, backend, width, height,
                                       fallback).crop)

\* C2: tracker coasting.  After a frame of the video with a detection, for
\* any gap G each of the next G consecutive frames without a detection
\* returns the last smoothed box unchanged (and keeps it); every later
\* consecutive frame without a detection, the (G+1)-th first, returns the
\* fallback box with the tracker state reset (no previous box, counter 0,
\* EMA cleared); the detected focus that follows such a loss is returned
\* as it is, fitted into the frame, without blending.
C2_TrackerCoasting ==
    (pc = "video" /\ frame_index >= 1) =>
        /\ (since_detection >= 1 /\ since_detection <= max_tracking_gap) =>
               /\ ~IsNone(prev_smoothed)
               /\ returned = prev_smoothed
               /\ last_smoothed = prev_smoothed
               /\ lost_frames = since_detection
        /\ since_detection > max_tracking_gap =>
               /\ returned = Some(fallback)
               /\ TrackerEmpty
        /\ (since_detection = 0 /\ prev_since > max_tracking_gap) =>
               /\ returned = Some(CropBox(
                      clamp(Get(focus).x, 0, Max2(0, width - Get(focus).size)),
                      clamp(Get(focus).y, 0, Max2(0, height - Get(focus).size)),
                      Get(focus).size))
               /\ last_smoothed = returned
               /\ smoother_state = focus

\* Witness of C2: with a gap of at least one frame, the frame after the
\* coasting frames returned the fallback box in place of the box kept so
\* far, and the tracker was reset.
C2_Witness ==
    /\ pc = "video"
    /\ max_tracking_gap >= 1
    /\ since_detection = max_tracking_gap + 1
    /\ ~IsNone(prev_smoothed)
    /\ returned = Some(fallback)
    /\ prev_smoothed # returned
    /\ TrackerEmpty

----------------------------------------------------------------------------
(* Specification SpecFrames: _iter_motion_frames applied to a start and an *)
(* end crop for a frame rate and a duration.                               *)

ClipRates == {1, 2, 3, 4, 5, 30}
ClipDurations == {0, 1, 2, 5, 7}

InitFrames ==
    /\ pc = "clip"
    /\ \E fs \in FrameSizes : width = fs[1] /\ height = fs[2]
    /\ clip_fps \in ClipRates
    /\ clip_duration \in ClipDurations
    /\ frame_plan = <<>>
    /\ options \in {[DefaultOptions EXCEPT !.motion_enabled = m] : m \in BOOLEAN}
    /\ backend = <<>>
    /\ face_cropper = None
    /\ manual_crop = None
    /\ detections = <<>>
    /\ planned \in {Some(ManualCrop(a, b)) : a, b \in ManualBoxes}
    /\ frames = <<>>
    /\ IdleGeom /\ IdleTracker /\ IdleVideo
    /\ IdleBatch /\ IdleGui
    /\ IdleEncode
    /\ IdleFilter
    /\ IdleConv
    /\ IdleFocus
    /\ IdleOpt
    /\ IdleOut
    /\ IdleProc

IterMotionFrames ==
    /\ pc = "clip"
    /\ frame_plan' = frame_counts(clip_fps, clip_duration, options.motion_enabled)
    /\ frames' = iter_motion_frames(Get(planned).start, Get(planned).end, clip_fps,
                                    clip_duration, options.motion_enabled)
    /\ pc' = "yielded"
    /\ UNCHANGED <<width, height, clip_fps, clip_duration, options, backend,
                   face_cropper, manual_crop, detections, planned,
                   geomVars, trackerVars, videoVars, batchVars, guiVars, encodeVars, filterVars, convVars, focusVars, optVars, outVars, procVars>>

NextFrames == IterMotionFrames

SpecFrames == InitFrames /\ [][NextFrames]_vars

\* The hold lengths before any reduction: max(1, round(0.5 * fps)).
NominalHold(fps) == Max2(1, RoundHalfEven(IMAGE_START_HOLD[1] * fps, IMAGE_START_HOLD[2]))

\* C11: for every fps >= 1 and duration the start-hold, transition and
\* end-hold frame counts are each >= 0 and sum exactly to
\* max(1, round(duration * fps)), which is the number of frames emitted;
\* when the holds do not fit, frames are taken from the start hold (down to
\* its last frame) before any is taken from the end hold.
C11_FrameCountsSum ==
    pc = "yielded" =>
        LET total == Max2(1, clip_duration * clip_fps)
        IN  /\ \A i \in 1..3 : frame_plan[i] \in Nat
            /\ frame_plan[1] + frame_plan[2] + frame_plan[3] = total
            /\ Len(frames) = total
            /\ options.motion_enabled =>
                   /\ frame_plan[1] <= NominalHold(clip_fps)
                   /\ frame_plan[3] <= NominalHold(clip_fps)
                   /\ frame_plan[3] < NominalHold(clip_fps) => frame_plan[1] = 1
                   /\ 2 * NominalHold(clip_fps) <= total =>
                          /\ frame_plan[1] = NominalHold(clip_fps)
                          /\ frame_plan[3] = NominalHold(clip_fps)

\* Witness of C11: the holds did not fit, the start hold gave up a frame
\* and the end hold none.
C11_Witness ==
    /\ pc = "yielded" /\ options.motion_enabled
    /\ frame_plan[1] < NominalHold(clip_fps)
    /\ frame_plan[3] = NominalHold(clip_fps)
    /\ Len(frames) = frame_plan[1] + frame_plan[3]

\* Frames were left over after the holds and the nominal transition and
\* went to the transition.
C11_LeftoverFolded ==
    /\ pc = "yielded" /\ options.motion_enabled
    /\ frame_plan[2] > RoundHalfEven(IMAGE_TRANSITION_DURATION[1] * clip_fps,
                                     IMAGE_TRANSITION_DURATION[2])

----------------------------------------------------------------------------
(* The smoothing and the step limit of the tracker, on SpecVideo *)

\* alpha * new + (1 - alpha) * previous on x, y and size.
Blended(new, previous) ==
    CropBox((SMOOTHING[1] * new.x + (SMOOTHING[2] - SMOOTHING[1]) * previous.x)
                \div SMOOTHING[2],
            (SMOOTHING[1] * new.y + (SMOOTHING[2] - SMOOTHING[1]) * previous.y)
                \div SMOOTHING[2],
            (SMOOTHING[1] * new.size + (SMOOTHING[2] - SMOOTHING[1]) * previous.size)
                \div SMOOTHING[2])

\* The last frame had a focus and the tracker held state before it.
SmoothedFrame ==
    /\ pc = "video" /\ frame_index >= 1
    /\ ~IsNone(focus)
    /\ ~IsNone(prev_state)
    /\ ~IsNone(prev_smoothed)

\* C12: on a frame with a focus box and an existing tracker state the
\* returned box is the exponential moving average of the focus and the
\* previous state on all three of x, y and size (x and y then pass the step
\* and frame limits), and that smoothed box is persisted as the new state.
C12_SmoothedAllComponents ==
    SmoothedFrame =>
        LET ema == Blended(Get(focus), Get(prev_state))
            box == Get(returned)
            max_step == MulRatio(box.size, MAX_STEP_FRACTION)
        IN  /\ smoother_state = Some(ema)
            /\ last_smoothed = returned
            /\ box.size = ema.size
            /\ box.x = clamp(limit_step(ema.x, Get(prev_smoothed).x, max_step),
                             0, Max2(0, width - box.size))
            /\ box.y = clamp(limit_step(ema.y, Get(prev_smoothed).y, max_step),
                             0, Max2(0, height - box.size))

\* C13: whenever a previous smoothed box exists, the box track returns for a
\* frame with a focus differs from it by at most maxStepFraction * windowSize
\* on the x axis and on the y axis.
C13_StepWithinLimit ==
    (pc = "video" /\ frame_index >= 1 /\ ~IsNone(focus) /\ ~IsNone(prev_smoothed)) =>
        LET box == Get(returned)
            window_size == box.size
        IN  /\ MAX_STEP_FRACTION[2] * Abs(box.x - Get(prev_smoothed).x)
                   <= MAX_STEP_FRACTION[1] * window_size
            /\ MAX_STEP_FRACTION[2] * Abs(box.y - Get(prev_smoothed).y)
                   <= MAX_STEP_FRACTION[1] * window_size

----------------------------------------------------------------------------
(* The order in which detect_subjects consults its backends, on SpecPlan *)

Calls == detector_calls(Get(face_cropper), backend, width, height)

Primary ==
    IF Get(face_cropper).use_mediapipe
    THEN detect_with_mediapipe(Get(face_cropper), backend.primary, width, height)
    ELSE detect_with_cascade(Get(face_cropper), backend.primary, width, height)

IndexOf(calls, name) ==
    IF \E i \in 1..Len(calls) : calls[i] = name
    THEN CHOOSE i \in 1..Len(calls) : calls[i] = name
    ELSE 0

\* C14: detection consults exactly one primary backend, first: mediapipe
\* when available, otherwise the cascades, never both.  The person detector
\* and the saliency proposer are consulted only when the primary yielded
\* nothing or its best score is below 0.6, the person detector before the
\* saliency proposer; where neither is consulted the candidates are the
\* primary's.
C14_FusionOrder ==
    DetectorRan =>
        /\ Len(Calls) >= 1
        /\ Calls[1] = (IF Get(face_cropper).use_mediapipe THEN "mediapipe"
                       ELSE "cascade")
        /\ \A i \in 2..Len(Calls) : Calls[i] \in {"people", "saliency"}
        /\ \A i, j \in 1..Len(Calls) : Calls[i] = Calls[j] => i = j
        /\ (\E i \in 1..Len(Calls) : Calls[i] \in {"people", "saliency"}) =>
               \/ Primary = <<>>
               \/ \A i \in 1..Len(Primary) : Primary[i].score < CONFIDENT_SCORE
        /\ IndexOf(Calls, "saliency") # 0 =>
               /\ IndexOf(Calls, "people") # 0
               /\ IndexOf(Calls, "people") < IndexOf(Calls, "saliency")
        /\ Len(Calls) = 1 => Candidates = Primary

\* A confident primary result was found and nothing else was consulted,
\* although the person detector had something to report.
C14_Witness ==
    /\ DetectorRan
    /\ Len(Calls) = 1
    /\ Primary # <<>>
    /\ backend.people # <<>>

\* All three backends were consulted in turn.
C14_AllConsulted ==
    /\ DetectorRan
    /\ Calls \in {<<"mediapipe", "people", "saliency">>,
                  <<"cascade", "people", "saliency">>}

----------------------------------------------------------------------------
(* Specification SpecBatch: the batch drivers of the command line,         *)
(* _process_images (a thread pool) followed by _process_videos.            *)

MaxImages == 2
MaxBatchVideos == 2
MaxWorkers == 2

\* How processing one item ends: normally, or with the exception raised:
\* RuntimeError (the encoder exits non-zero, a video cannot be opened, a
\* frame has the wrong shape), OSError (the output is unwritable, the image
\* cannot be opened, the encoder's pipe breaks).
Outcomes == {"ok", "RuntimeError", "OSError"}

caught_runtime_only(exc) == exc = "RuntimeError"

\* except Exception
caught(exc) == exc \in {"RuntimeError", "OSError"}

PoolThreads == 1..max_workers

InitBatch ==
    /\ pc = "pool"
    /\ images \in 0..MaxImages
    /\ videos \in 0..MaxBatchVideos
    /\ max_workers \in 1..MaxWorkers
    /\ futures = [i \in 1..images |-> "pending"]
    /\ collected = {}
    /\ thread_item = [t \in 1..max_workers |-> 0]
    /\ thread_local = [t \in 1..max_workers |-> 0]
    /\ detectors = <<>>
    /\ video_cursor = 0
    /\ video_results = [v \in 1..videos |-> "pending"]
    /\ logged = {}
    /\ options \in {[DefaultOptions EXCEPT !.face_detection_enabled = e] :
                       e \in BOOLEAN}
    /\ width = 0 /\ height = 0
    /\ backend = <<>>
    /\ face_cropper = None
    /\ manual_crop = None
    /\ detections = <<>>
    /\ planned = None
    /\ frames = <<>>
    /\ IdleGeom /\ IdleTracker /\ IdleVideo
    /\ IdleClip
    /\ IdleGui
    /\ IdleEncode
    /\ IdleFilter
    /\ IdleConv
    /\ IdleFocus
    /\ IdleOpt
    /\ IdleOut
    /\ IdleProc

\* A pool thread takes the next image of the queue and fetches its detector
\* (_worker up to the call of process_image, _get_detector).
WorkerStart(t) ==
    /\ pc \in {"pool", "aborted"}
    /\ thread_item[t] = 0
    /\ \E i \in 1..images :
        /\ futures[i] = "pending"
        /\ \A j \in 1..(i - 1) : futures[j] # "pending"
        /\ futures' = [futures EXCEPT ![i] = "running"]
        /\ thread_item' = [thread_item EXCEPT ![t] = i]
    /\ IF options.face_detection_enabled /\ thread_local[t] = 0
       THEN /\ thread_local' = [thread_local EXCEPT ![t] = Len(detectors) + 1]
            /\ detectors' = Append(detectors, t)
       ELSE UNCHANGED <<thread_local, detectors, encodeVars, filterVars, convVars, focusVars, optVars, outVars, procVars>>
    /\ UNCHANGED <<pc, width, height, images, videos, max_workers, collected,
                   video_cursor, video_results, logged, imageVars, geomVars,
                   trackerVars, videoVars, clipVars, guiVars, encodeVars, filterVars, convVars, focusVars, optVars, outVars, procVars>>

\* process_image returns or raises in the pool thread.
WorkerFinish(t) ==
    /\ thread_item[t] # 0
    /\ \E outcome \in Outcomes :
           futures' = [futures EXCEPT ![thread_item[t]] = outcome]
    /\ thread_item' = [thread_item EXCEPT ![t] = 0]
    /\ UNCHANGED <<pc, width, height, images, videos, max_workers, collected,
                   thread_local, detectors, video_cursor, video_results, logged,
                   imageVars, geomVars, trackerVars, videoVars, clipVars, guiVars, encodeVars, filterVars, convVars, focusVars, optVars, outVars, procVars>>

\* The driver takes a finished future from as_completed.
Collect ==
    /\ pc = "pool"
    /\ \E i \in 1..images :
        /\ i \notin collected
        /\ futures[i] \in Outcomes
        /\ collected' = collected \cup {i}
        /\ IF futures[i] = "ok" THEN UNCHANGED <<pc, logged, encodeVars, filterVars, convVars, focusVars, optVars, outVars, procVars>>
           ELSE IF caught(futures[i])
           THEN logged' = logged \cup {<<"image", i>>} /\ UNCHANGED pc
           ELSE pc' = "aborted" /\ UNCHANGED logged
    /\ UNCHANGED <<width, height, images, videos, max_workers, futures,
                   thread_item, thread_local, detectors, video_cursor,
                   video_results, imageVars, geomVars, trackerVars, videoVars,
                   clipVars, guiVars, encodeVars, filterVars, convVars, focusVars, optVars, outVars, procVars>>

\* _process_images closes the detectors and returns; _process_videos
\* creates its detector.
StartVideos ==
    /\ pc = "pool"
    /\ collected = 1..images
    /\ face_cropper' = IF options.face_detection_enabled
                       THEN Some(FaceCropper(MIN_FACE_DEFAULT, "largest", TRUE))
                       ELSE None
    /\ pc' = "videos"
    /\ UNCHANGED <<width, height, options, backend, manual_crop, detections,
                   planned, frames, batchVars, geomVars, trackerVars, videoVars,
                   clipVars, guiVars, encodeVars, filterVars, convVars, focusVars, optVars, outVars, procVars>>

\* One turn of the loop of _process_videos.
ProcessVideo ==
    /\ pc = "videos"
    /\ video_cursor < videos
    /\ video_cursor' = video_cursor + 1
    /\ \E outcome \in Outcomes :
        /\ video_results' = [video_results EXCEPT ![video_cursor'] = outcome]
        /\ IF outcome = "ok" THEN UNCHANGED <<pc, logged, encodeVars, filterVars, convVars, focusVars, optVars, outVars, procVars>>
           ELSE IF caught(outcome)
           THEN logged' = logged \cup {<<"video", video_cursor'>>} /\ UNCHANGED pc
           ELSE pc' = "aborted" /\ UNCHANGED logged
    /\ UNCHANGED <<width, height, images, videos, max_workers, futures, collected,
                   thread_item, thread_local, detectors, imageVars, geomVars,
                   trackerVars, videoVars, clipVars, guiVars, encodeVars, filterVars, convVars, focusVars, optVars, outVars, procVars>>

\* _process_videos closes its detector and run_cli logs "Fertig.".
FinishCli ==
    /\ pc = "videos"
    /\ video_cursor = videos
    /\ face_cropper' = None
    /\ pc' = "finished"
    /\ UNCHANGED <<width, height, options, backend, manual_crop, detections,
                   planned, frames, batchVars, geomVars, trackerVars, videoVars,
                   clipVars, guiVars, encodeVars, filterVars, convVars, focusVars, optVars, outVars, procVars>>

NextBatch ==
    \/ \E t \in PoolThreads : WorkerStart(t)
    \/ \E t \in PoolThreads : WorkerFinish(t)
    \/ Collect
    \/ StartVideos
    \/ ProcessVideo
    \/ FinishCli

SpecBatch == InitBatch /\ [][NextBatch]_vars

FailedItems ==
    {<<"image", i>> : i \in {j \in 1..images : futures[j] \in Outcomes \ {"ok"}}}
        \cup {<<"video", v>> : v \in {u \in 1..videos :
                                         video_results[u] \in Outcomes \ {"ok"}}}

\* C15: a failure while one item is processed is surfaced for that item
\* only: the driver never stops on it, an error is logged for an item only
\* if that item failed, and when the driver has finished every image and
\* every video of the batch has been attempted and exactly the failed ones
\* have been logged.
C15_FailureIsolated ==
    /\ pc # "aborted"
    /\ logged \subseteq FailedItems
    /\ pc = "finished" =>
        /\ \A i \in 1..images : futures[i] \in Outcomes
        /\ \A v \in 1..videos : video_results[v] \in Outcomes
        /\ logged = FailedItems

\* The first image and the first video failed, in different ways, and the
\* second ones were processed; the driver has finished.
C15_Witness ==
    /\ pc = "finished"
    /\ images = 2 /\ videos = 2
    /\ futures = <<"OSError", "ok">>
    /\ video_results = <<"RuntimeError", "ok">>

\* A detector of the pool is used by the thread whose thread-local slot holds it.
PoolUsers(detector) ==
    {t \in PoolThreads : thread_item[t] # 0 /\ thread_local[t] = detector}

PoolDetectorsConfined ==
    pc \in {"pool", "videos", "finished"} =>
        \A k \in 1..Len(detectors) : Cardinality(PoolUsers(k)) <= 1

----------------------------------------------------------------------------
(* Specification SpecGui: the window's background analysis.  The handlers  *)
(* run on the main loop; each analysis runs in a thread of its own and     *)
(* hands its result back with after(0, ...).  Every analysis thread works  *)
(* with the one detector _get_preview_cropper returns.                     *)

MaxGuiThreads == 3
MaxBulkImages == 2

GuiThread(kind, token, stage, left) ==
    [kind |-> kind, token |-> token, stage |-> stage, left |-> left]

InitGui ==
    /\ pc = "gui"
    /\ preview_cropper = FALSE
    /\ auto_task_token = 0
    /\ bulk_auto_token = 0
    /\ next_token = 0
    /\ gui_threads = {}
    /\ callbacks = <<>>
    /\ controls_enabled = TRUE
    /\ motion_enabled_var \in BOOLEAN
    /\ manual_static = TRUE
    /\ width = 0 /\ height = 0
    /\ IdleImage
    /\ IdleGeom /\ IdleTracker /\ IdleVideo
    /\ IdleClip
    /\ IdleBatch
    /\ IdleEncode
    /\ IdleFilter
    /\ IdleConv
    /\ IdleFocus
    /\ IdleOpt
    /\ IdleOut
    /\ IdleProc

\* _start_auto_detection: fetch the preview detector, take a new token,
\* disable the controls and start a thread that analyses the current image.
start_auto_detection ==
    /\ next_token < MaxGuiThreads
    /\ preview_cropper' = TRUE
    /\ next_token' = next_token + 1
    /\ auto_task_token' = next_token'
    /\ controls_enabled' = FALSE
    /\ gui_threads' = gui_threads \cup {GuiThread("auto", next_token', "detecting", 1)}

\* The "Auto" button, one of the buttons _set_controls_enabled switches.
ResetCropToAuto ==
    /\ pc = "gui"
    /\ controls_enabled
    /\ start_auto_detection
    /\ UNCHANGED <<pc, width, height, bulk_auto_token, callbacks,
                   motion_enabled_var, manual_static, imageVars, geomVars,
                   trackerVars, videoVars, clipVars, batchVars, encodeVars, filterVars, convVars, focusVars, optVars, outVars, procVars>>

\* The "motion" checkbox, which _set_controls_enabled leaves enabled.
OnMotionToggle ==
    /\ pc = "gui"
    /\ motion_enabled_var' = ~motion_enabled_var
    /\ IF motion_enabled_var' /\ manual_static
       THEN start_auto_detection
       ELSE UNCHANGED <<preview_cropper, next_token, auto_task_token,
                        controls_enabled, gui_threads, encodeVars, filterVars, convVars, focusVars, optVars, outVars, procVars>>
    /\ UNCHANGED <<pc, width, height, bulk_auto_token, callbacks, manual_static,
                   imageVars, geomVars, trackerVars, videoVars, clipVars,
                   batchVars, encodeVars, filterVars, convVars, focusVars, optVars, outVars, procVars>>

\* The file list, always enabled: _on_listbox_select loads the preview of
\* the image, whose manual crop is static or not, and enables the controls.
OnListboxSelect ==
    /\ pc = "gui"
    /\ controls_enabled' = TRUE
    /\ manual_static' \in BOOLEAN
    /\ UNCHANGED <<pc, width, height, preview_cropper, auto_task_token,
                   bulk_auto_token, next_token, gui_threads, callbacks,
                   motion_enabled_var, imageVars, geomVars, trackerVars,
                   videoVars, clipVars, batchVars, encodeVars, filterVars, convVars, focusVars, optVars, outVars, procVars>>

\* The "analyse all images" button.
AnalyzeAllImages ==
    /\ pc = "gui"
    /\ controls_enabled
    /\ bulk_auto_token = 0
    /\ next_token < MaxGuiThreads
    /\ preview_cropper' = TRUE
    /\ next_token' = next_token + 1
    /\ bulk_auto_token' = next_token'
    /\ controls_enabled' = FALSE
    /\ gui_threads' = gui_threads
           \cup {GuiThread("bulk", next_token', "opening", MaxBulkImages)}
    /\ UNCHANGED <<pc, width, height, auto_task_token, callbacks,
                   motion_enabled_var, manual_static, imageVars, geomVars,
                   trackerVars, videoVars, clipVars, batchVars, encodeVars, filterVars, convVars, focusVars, optVars, outVars, procVars>>

\* One step of an analysis thread: open the next image, analyse it with the
\* preview detector, or hand the result to the main loop and end.
ThreadStep ==
    /\ pc = "gui"
    /\ \E th \in gui_threads :
        \/ /\ th.stage = "opening"
           /\ \E opened \in BOOLEAN :
               gui_threads' = (gui_threads \ {th}) \cup
                   (IF opened THEN {[th EXCEPT !.stage = "detecting"]}
                    ELSE IF th.left > 1 THEN {[th EXCEPT !.left = th.left - 1]}
                    ELSE {})
               /\ callbacks' = IF ~opened /\ th.left = 1
                               THEN Append(callbacks, <<"finish_bulk", th.token>>)
                               ELSE callbacks
        \/ /\ th.stage = "detecting"
           /\ gui_threads' = (gui_threads \ {th}) \cup
                   (IF th.left > 1
                    THEN {[th EXCEPT !.stage = "opening", !.left = th.left - 1]}
                    ELSE {})
           /\ callbacks' = IF th.left > 1 THEN callbacks
                           ELSE Append(callbacks,
                                    <<IF th.kind = "auto" THEN "finish_auto"
                                      ELSE "finish_bulk", th.token>>)
    /\ UNCHANGED <<pc, width, height, preview_cropper, auto_task_token,
                   bulk_auto_token, next_token, controls_enabled,
                   motion_enabled_var, manual_static, imageVars, geomVars,
                   trackerVars, videoVars, clipVars, batchVars, encodeVars, filterVars, convVars, focusVars, optVars, outVars, procVars>>

\* The main loop runs the next queued call: _finish_auto_detection or
\* _finish_bulk_auto, which do nothing for a token that is not the current one.
MainLoop ==
    /\ pc = "gui"
    /\ callbacks # <<>>
    /\ callbacks' = Tail(callbacks)
    /\ IF Head(callbacks)[1] = "finish_auto"
       THEN IF Head(callbacks)[2] # auto_task_token
            THEN UNCHANGED <<auto_task_token, bulk_auto_token, controls_enabled,
                             manual_static, encodeVars, filterVars, convVars, focusVars, optVars, outVars, procVars>>
            ELSE /\ auto_task_token' = 0
                 /\ controls_enabled' = TRUE
                 /\ manual_static' \in BOOLEAN
                 /\ UNCHANGED bulk_auto_token
       ELSE IF Head(callbacks)[2] # bulk_auto_token
            THEN UNCHANGED <<auto_task_token, bulk_auto_token, controls_enabled,
                             manual_static, encodeVars, filterVars, convVars, focusVars, optVars, outVars, procVars>>
            ELSE /\ bulk_auto_token' = 0
                 /\ controls_enabled' = TRUE
                 /\ manual_static' \in BOOLEAN
                 /\ UNCHANGED auto_task_token
    /\ UNCHANGED <<pc, width, height, preview_cropper, next_token, gui_threads,
                   motion_enabled_var, imageVars, geomVars, trackerVars,
                   videoVars, clipVars, batchVars, encodeVars, filterVars, convVars, focusVars, optVars, outVars, procVars>>

NextGui ==
    \/ ResetCropToAuto
    \/ OnMotionToggle
    \/ OnListboxSelect
    \/ AnalyzeAllImages
    \/ ThreadStep
    \/ MainLoop

SpecGui == InitGui /\ [][NextGui]_vars

\* The threads that are inside a call on the preview detector.
PreviewUsers == {th \in gui_threads : th.stage = "detecting"}

----------------------------------------------------------------------------
(* Specification SpecEncode: the frame buffers process_image and           *)
(* process_video write to the encoder, as shapes <<rows, columns,          *)
(* channels>>.                                                             *)

CHANNELS == 3

\* CropBox.as_tuple: floor of the left and top, ceiling of the right and
\* bottom edge; on the pixel grid both leave the edge where it is.
as_tuple(box) == <<box.x, box.y, box.x + box.size, box.y + box.size>>

\* The part of the frame inside the box, without padding.
crop_frame_clipped(w, h, channels, box) ==
    <<Max2(0, Min2(h, as_tuple(box)[4]) - Max2(0, as_tuple(box)[2])),
      Max2(0, Min2(w, as_tuple(box)[3]) - Max2(0, as_tuple(box)[1])),
      channels>>

\* _crop_frame_with_padding: a black square of the box's size onto which
\* the part of the frame inside the box is copied.
crop_frame_with_padding(w, h, channels, box) ==
    LET padded(size) == <<size, size, channels>>
    IN  padded(Max2(1, Max2(as_tuple(box)[3] - as_tuple(box)[1],
                            as_tuple(box)[4] - as_tuple(box)[2])))

\* Image.crop takes the box as it is and fills what lies outside the image.
image_crop(box) ==
    <<as_tuple(box)[4] - as_tuple(box)[2], as_tuple(box)[3] - as_tuple(box)[1],
      CHANNELS>>

\* cv2.resize and Image.resize to (size, size); an empty input is an error.
resize(shape, size) ==
    IF shape[1] < 1 \/ shape[2] < 1 THEN <<0, 0, 0>>
    ELSE <<size, size, shape[3]>>

TargetSizes == {16, 48}
EncodeBoxes == {CropBox(0, 0, 60), CropBox(-20, 10, 50), CropBox(70, 70, 30),
                CropBox(-70, -70, 20), CropBox(5, 5, 1)}
EncodeModes == {"auto", "center", "manual"}

InitEncode ==
    /\ pc = "encode"
    /\ \E fs \in FrameSizes : width = fs[1] /\ height = fs[2]
    /\ out_size \in TargetSizes
    /\ cropped = <<>>
    /\ buffers = <<>>
    /\ crop_box \in EncodeBoxes
    /\ overflow_ratio = CROP_OVERFLOW_RATIO
    /\ normalized = None
    /\ renormalized = None
    /\ options \in {[DefaultOptions EXCEPT !.mode = mode, !.motion_enabled = m,
                                           !.face_detection_enabled = FALSE,
                                           !.fps = "1"] :
                       mode \in EncodeModes, m \in BOOLEAN}
    /\ backend = [primary |-> <<>>, people |-> <<>>, saliency |-> <<>>]
    /\ face_cropper = None
    /\ manual_crop = None
    /\ detections = <<>>
    /\ planned = None
    /\ frames = <<>>
    /\ IdleTracker /\ IdleVideo
    /\ IdleClip
    /\ IdleBatch /\ IdleGui
    /\ IdleFilter
    /\ IdleConv
    /\ IdleFocus
    /\ IdleOpt
    /\ IdleOut
    /\ IdleProc

\* process_image without a detector: the crops of the clip's frames, each
\* cut out of the image and resized.  The box is the image's manual crop in
\* mode "manual", and there is none otherwise.
EncodeImage ==
    /\ pc = "encode"
    /\ manual_crop' = IF options.mode = "manual"
                      THEN Some(ManualCrop(crop_box, CropBox(0, 0, crop_box.size)))
                      ELSE None
    /\ planned' = Some(process_image_crops(width, height, backend, options,
                                           face_cropper, manual_crop'))
    /\ frames' = iter_motion_frames(Get(planned').start, Get(planned').end,
                                    preferred_fps(options), IMAGE_CLIP_DURATION,
                                    options.motion_enabled)
    /\ cropped' = [i \in 1..Len(frames') |-> image_crop(frames'[i])]
    /\ buffers' = [i \in 1..Len(frames') |-> resize(cropped'[i], out_size)]
    /\ pc' = "image"
    /\ UNCHANGED <<width, height, out_size, options, backend, face_cropper,
                   detections, geomVars, trackerVars, videoVars, clipVars,
                   batchVars, guiVars, filterVars, convVars, focusVars, optVars, outVars, procVars>>

\* One frame of process_video without a detector: _compute_crop, the padded
\* crop, cv2.resize and the conversion to RGB.  The box is options.crop_x,
\* crop_y, crop_w, crop_h in mode "manual".
EncodeVideoFrame ==
    /\ pc = "encode"
    /\ options' = [options EXCEPT !.crop =
                      IF options.mode = "manual"
                      THEN Some([x |-> crop_box.x, y |-> crop_box.y,
                                 w |-> crop_box.size, h |-> crop_box.size])
                      ELSE None]
    /\ normalized' = Some(compute_crop(options', face_cropper, NewTracker,
                                       max_tracking_gap, backend, width, height,
                                       center_crop(width, height, options.pad)).crop)
    /\ cropped' = <<crop_frame_with_padding(width, height, CHANNELS,
                                            Get(normalized'))>>
    /\ buffers' = <<resize(cropped'[1], out_size)>>
    /\ pc' = "video"
    /\ UNCHANGED <<width, height, out_size, crop_box, overflow_ratio, renormalized,
                   backend, face_cropper, manual_crop, detections, planned, frames,
                   trackerVars, videoVars, clipVars, batchVars, guiVars, filterVars, convVars, focusVars, optVars, outVars, procVars>>

NextEncode == EncodeImage \/ EncodeVideoFrame

SpecEncode == InitEncode /\ [][NextEncode]_vars

\* C17: every frame buffer handed to the encoder is size x size pixels with
\* 3 channels, for images and for videos, for every crop box, those that
\* extend outside the source included, without a detector; the crop it is
\* resized from is a square.
C17_BufferIsSquareTarget ==
    pc \in {"image", "video"} =>
        /\ Len(buffers) >= 1
        /\ \A i \in 1..Len(buffers) :
            /\ buffers[i] = <<out_size, out_size, 3>>
            /\ cropped[i][1] = cropped[i][2]
            /\ cropped[i][1] >= 1

\* A video frame was cut with a box that extends outside the frame.
C17_Witness ==
    /\ pc = "video"
    /\ options.mode = "manual"
    /\ \/ Get(normalized).x < 0
       \/ Get(normalized).y + Get(normalized).size > height
    /\ buffers = <<(<<out_size, out_size, 3>>)>>

\* A moving image clip was cut with a box that extends outside the image.
C17_ImageOutside ==
    /\ pc = "image"
    /\ options.motion_enabled
    /\ \E i \in 1..Len(frames) : frames[i].x < 0
    /\ Len(buffers) = 5

----------------------------------------------------------------------------
(* The order of preference of the planner, on SpecPlan *)

\* combine's box if there is one, else select's, else the focus window's.
priority_chain(combined, selected, window) ==
    IF ~IsNone(combined) THEN combined
    ELSE IF ~IsNone(selected)
    THEN Some(CropBox(Get(selected).box.x, Get(selected).box.y,
                      Get(selected).box.size))
    ELSE window

Combined == combine_detections(Get(face_cropper), detections, width, height)
Selected == select_detection(Get(face_cropper), detections, width, height)

\* The still planner ran with the detector.
StillPlanned ==
    pc = "static" /\ options.mode = "auto" /\ options.face_detection_enabled

or_else(chosen, otherwise) == IF IsNone(chosen) THEN otherwise ELSE Get(chosen)

\* C18: in the still planner and in the tracker the focus is combine's box
\* whenever combine gives one, otherwise select's box whenever select gives
\* one, otherwise the focus window's box, otherwise the centre (still) or
\* fallback (tracker) box; the still planner's result is that box passed
\* through normalize_crop.
C18_PriorityChain ==
    /\ StillPlanned =>
        Get(planned).end =
            normalize_crop(width, height,
                or_else(priority_chain(Combined, Selected,
                            focus_window(Get(face_cropper), detections, width,
                                height, center_square(width, height, options.pad).size)),
                        center_square(width, height, options.pad)),
                FALSE)
    /\ (pc = "static" /\ ~StillPlanned) =>
        Get(planned).end = normalize_crop(width, height,
                               center_square(width, height, options.pad), TRUE)
    /\ pc = "tracked" =>
        /\ focus = priority_chain(Combined, Selected,
                       focus_window(Get(face_cropper), detections, width, height,
                                    fallback.size))
        /\ IsNone(focus) => returned = Some(fallback)

\* The tracker took combine's box although select gave another one.
C18_Witness ==
    /\ pc = "tracked"
    /\ ~IsNone(Combined)
    /\ focus = Combined
    /\ Get(focus) # Get(Selected).box

\* The still planner took select's box because combine gave none.
C18_StillSelected ==
    /\ StillPlanned
    /\ detections # <<>>
    /\ IsNone(Combined)
    /\ ~IsNone(Selected)

\* Nothing was detected: the tracker returned the fallback.
C18_TrackerFallback ==
    /\ pc = "tracked"
    /\ IsNone(focus)
    /\ returned = Some(fallback)

----------------------------------------------------------------------------
(* The end points of an automatic motion, on SpecPlan *)

\* The box lies inside the frame.
InsideFrame(box) ==
    /\ 0 <= box.x /\ box.x + box.size <= width
    /\ 0 <= box.y /\ box.y + box.size <= height

\* determine_motion_manual planned a motion with the detector.
MotionPlanned ==
    /\ pc = "motion"
    /\ options.motion_enabled
    /\ options.face_detection_enabled

\* C19: both boxes of every ManualCrop the automatic motion planner
\* produces lie entirely inside the source frame: 0 <= x, x + size <= width,
\* 0 <= y and y + size <= height.
C19_EndpointsInsideFrame ==
    MotionPlanned =>
        /\ InsideFrame(Get(planned).start)
        /\ InsideFrame(Get(planned).end)

\* The same for the motions planned from at least one detection.
C19_DetectedEndpointsInside ==
    (MotionPlanned /\ detections # <<>>) =>
        /\ InsideFrame(Get(planned).start)
        /\ InsideFrame(Get(planned).end)

----------------------------------------------------------------------------
(* Specification SpecFilter: _filter_relevant_detections applied to a list *)
(* of detections.                                                          *)

MaxCandidates == 6

FilterCandidates ==
    {DetectionResult(90, CropBox(20, 10, 40)), DetectionResult(30, CropBox(0, 0, 8)),
     DetectionResult(59, CropBox(2, 2, 12)), DetectionResult(70, CropBox(50, 40, 10))}

InitFilter ==
    /\ pc = "candidates"
    /\ \E fs \in FrameSizes : width = fs[1] /\ height = fs[2]
    /\ candidate_list \in SeqsUpTo(FilterCandidates, MaxCandidates) \ {<<>>}
    /\ relevant_list = <<>>
    /\ face_cropper = Some(FaceCropper(MIN_FACE_DEFAULT, "largest", TRUE))
    /\ options = <<>>
    /\ backend = <<>>
    /\ manual_crop = None
    /\ detections = <<>>
    /\ planned = None
    /\ frames = <<>>
    /\ IdleGeom /\ IdleTracker /\ IdleVideo
    /\ IdleClip
    /\ IdleBatch /\ IdleGui
    /\ IdleEncode
    /\ IdleConv
    /\ IdleFocus
    /\ IdleOpt
    /\ IdleOut
    /\ IdleProc

FilterRelevant ==
    /\ pc = "candidates"
    /\ relevant_list' = filter_relevant_detections(Get(face_cropper), candidate_list,
                                                   width, height)
    /\ pc' = "filtered"
    /\ UNCHANGED <<width, height, candidate_list, imageVars, geomVars, trackerVars,
                   videoVars, clipVars, batchVars, guiVars, encodeVars, convVars, focusVars, optVars, outVars, procVars>>

NextFilter == FilterRelevant

SpecFilter == InitFilter /\ [][NextFilter]_vars

Occurrences(e, seq) == Cardinality({i \in 1..Len(seq) : seq[i] = e})

LargestCandidate == SetMax({candidate_list[i].box.size : i \in 1..Len(candidate_list)})

Priority(det) == relevance_priority(det, width, height, LargestCandidate)

\* The candidates that pass the filter, in the order of the input.
Passing ==
    LET passes(det) == is_relevant(det, LargestCandidate, width, height)
    IN  SeqFilter(candidate_list, passes)

\* C20: the relevant list is a sub-list of the input (no element more often
\* than the input has it) with at most 5 elements, and with at least two
\* whenever the input has at least two.  The elements are kept by rank:
\* they are the best-ranked candidates that pass the filter, in descending
\* rank; when exactly one candidate passes and there are others, the
\* best-ranked of the others is added after it.
C20_RelevantSublist ==
    pc = "filtered" =>
        /\ \A i \in 1..Len(relevant_list) :
               Occurrences(relevant_list[i], relevant_list)
                   <= Occurrences(relevant_list[i], candidate_list)
        /\ Len(relevant_list) <= 5
        /\ Len(relevant_list) >= 1
        /\ Len(candidate_list) >= 2 => Len(relevant_list) >= 2
        /\ IF Len(Passing) = 1 /\ Len(candidate_list) > 1
           THEN /\ Len(relevant_list) = 2
                /\ relevant_list[1] = Passing[1]
                /\ relevant_list[2] # Passing[1]
                /\ \A i \in 1..Len(candidate_list) :
                       candidate_list[i] # Passing[1] =>
                           Priority(candidate_list[i]) <= Priority(relevant_list[2])
           ELSE /\ Len(relevant_list) = Min2(5, Len(Passing))
                /\ \A i \in 1..(Len(relevant_list) - 1) :
                       Priority(relevant_list[i]) >= Priority(relevant_list[i + 1])
                /\ \A i \in 1..Len(relevant_list) : InSeq(relevant_list[i], Passing)
                /\ \A i \in 1..Len(Passing) :
                       Occurrences(Passing[i], relevant_list)
                               < Occurrences(Passing[i], Passing) =>
                           Priority(Passing[i])
                               <= Priority(relevant_list[Len(relevant_list)])

\* Six candidates pass the filter and five are kept.
C20_Witness ==
    /\ pc = "filtered"
    /\ Len(Passing) = 6
    /\ Len(relevant_list) = 5

\* One of several candidates passes and another one is added back.
C20_AddedBack ==
    /\ pc = "filtered"
    /\ Len(candidate_list) >= 2
    /\ Len(Passing) = 1
    /\ Len(relevant_list) = 2

----------------------------------------------------------------------------
(* The order of the frames of a still-image clip, on SpecFrames *)

\* The fraction of the k-th transition frame of a transition of m frames.
TransitionFraction(k, m) == eased_fraction(k - 1, m + 1)

\* v moves from a towards b, or stays.
Towards(v, next, a, b) ==
    IF a <= b THEN a <= v /\ v <= next /\ next <= b
    ELSE a >= v /\ v >= next /\ next >= b

\* A clip with motion and at least two frames was generated.
MovingClip ==
    /\ pc = "yielded"
    /\ options.motion_enabled
    /\ Len(frames) >= 2

\* C21: with motion enabled and at least two frames the sequence is one or
\* more frames of the start crop, then the transition frames, then one or
\* more frames of the end crop; the fractions of the transition are the
\* smoothstep of k / (m + 1), strictly increasing and strictly between 0
\* and 1; the first frame shows the start crop, the last the end crop, and
\* x, y and size move monotonically from start to end.
C21_TimelineOrdered ==
    MovingClip =>
        /\ frame_plan[1] >= 1
        /\ frame_plan[3] >= 1
        /\ \A i \in 1..frame_plan[1] : frames[i] = Get(planned).start
        /\ \A i \in (frame_plan[1] + frame_plan[2] + 1)..Len(frames) :
               frames[i] = Get(planned).end
        /\ frames[1] = Get(planned).start
        /\ frames[Len(frames)] = Get(planned).end
        /\ \A k \in 1..frame_plan[2] :
            /\ 0 < TransitionFraction(k, frame_plan[2])[1]
            /\ TransitionFraction(k, frame_plan[2])[1]
                   < TransitionFraction(k, frame_plan[2])[2]
            /\ TransitionFraction(k, frame_plan[2])[2]
                   = (frame_plan[2] + 1) * (frame_plan[2] + 1) * (frame_plan[2] + 1)
            /\ TransitionFraction(k, frame_plan[2])[1]
                   = 3 * k * k * (frame_plan[2] + 1) - 2 * k * k * k
            /\ k < frame_plan[2] =>
                   /\ TransitionFraction(k, frame_plan[2])[2]
                          = TransitionFraction(k + 1, frame_plan[2])[2]
                   /\ TransitionFraction(k, frame_plan[2])[1]
                          < TransitionFraction(k + 1, frame_plan[2])[1]
            /\ frames[frame_plan[1] + k] =
                   interpolate_crop(Get(planned).start, Get(planned).end,
                                    TransitionFraction(k, frame_plan[2]))
        /\ \A i \in 1..(Len(frames) - 1) :
            /\ Towards(frames[i].x, frames[i + 1].x,
                       Get(planned).start.x, Get(planned).end.x)
            /\ Towards(frames[i].y, frames[i + 1].y,
                       Get(planned).start.y, Get(planned).end.y)
            /\ Towards(frames[i].size, frames[i + 1].size,
                       Get(planned).start.size, Get(planned).end.size)

\* A transition of several frames between two different crops, with a
\* frame that shows neither the start nor the end crop.
C21_Witness ==
    /\ MovingClip
    /\ frame_plan[2] >= 2
    /\ Get(planned).start # Get(planned).end
    /\ \E i \in 1..Len(frames) :
           frames[i] # Get(planned).start /\ frames[i] # Get(planned).end

\* The holds did not fit into the clip and there is no transition.
C21_NoTransition ==
    /\ MovingClip
    /\ frame_plan[2] = 0
    /\ Get(planned).start # Get(planned).end

----------------------------------------------------------------------------
(* Specification SpecBackend: each backend's conversion of one reported    *)
(* rectangle into a detection box.                                         *)

Backends == {"mediapipe", "cascade", "people", "saliency"}

MinFaceRatios == {MIN_FACE_DEFAULT, <<3, 10>>}

\* Rectangles inside the frame, as detectMultiScale and boundingRect
\* report them.
RawRectangles(w, h) ==
    {RawDetection(x, y, rw, rh, 80) :
        <<x, y, rw, rh>> \in {r \in {0, 10, 40} \X {0, 10} \X {4, 12, 20} \X {4, 12, 30, 70} :
                                 r[1] + r[3] <= w /\ r[2] + r[4] <= h}}

\* _detect_saliency skips a contour whose area is below 2 % of the image;
\* the bounding rectangle is at least as large as the contour.
SALIENCY_MIN_AREA == <<2, 100>>

saliency_kept(raw, w, h) ==
    raw.w * raw.h * SALIENCY_MIN_AREA[2] >= w * h * SALIENCY_MIN_AREA[1]

InitBackend ==
    /\ pc = "reported"
    /\ \E fs \in FrameSizes : width = fs[1] /\ height = fs[2]
    /\ raw_rect \in RawRectangles(width, height)
    /\ \E ratio \in MinFaceRatios :
           face_cropper = Some(FaceCropper(ratio, "largest", TRUE))
    /\ bases = [b \in Backends |-> None]
    /\ boxes = [b \in Backends |-> None]
    /\ options = <<>>
    /\ backend = <<>>
    /\ manual_crop = None
    /\ detections = <<>>
    /\ planned = None
    /\ frames = <<>>
    /\ IdleGeom /\ IdleTracker /\ IdleVideo /\ IdleClip
    /\ IdleBatch /\ IdleGui /\ IdleEncode /\ IdleFilter
    /\ IdleFocus
    /\ IdleOpt
    /\ IdleOut
    /\ IdleProc

Converted(b, base) ==
    /\ IsNone(bases[b])
    /\ bases' = [bases EXCEPT ![b] = Some(base)]
    /\ boxes' = [boxes EXCEPT ![b] =
                    Some(circle_aligned_box(Get(face_cropper), base, width, height))]
    /\ UNCHANGED <<sharedVars, raw_rect, imageVars, geomVars, trackerVars, videoVars,
                   clipVars, batchVars, guiVars, encodeVars, filterVars, focusVars, optVars, outVars, procVars>>

MpBoxToCrop ==
    /\ pc = "reported"
    /\ Converted("mediapipe", mp_base(Get(face_cropper), raw_rect, width, height))

DetectWithCascade ==
    /\ pc = "reported"
    /\ Converted("cascade", cascade_base(Get(face_cropper), raw_rect, width, height))

DetectPeople ==
    /\ pc = "reported"
    /\ Converted("people", people_base(Get(face_cropper), raw_rect, width, height))

DetectSaliency ==
    /\ pc = "reported"
    /\ saliency_kept(raw_rect, width, height)
    /\ Converted("saliency", saliency_base(Get(face_cropper), raw_rect, width, height))

NextBackend == MpBoxToCrop \/ DetectWithCascade \/ DetectPeople \/ DetectSaliency

SpecBackend == InitBackend /\ [][NextBackend]_vars

\* The side the rule gives the square: max(rawWidth, rawHeight), not below
\* min_face * min(width, height).
RuleSide == Max2(Max2(raw_rect.w, raw_rect.h),
                 min_face_size(Get(face_cropper), width, height))

\* C22: for every backend the square built from the reported rectangle has
\* side max(rawWidth, rawHeight) floor-bounded by min_face * min(width,
\* height), is centred on the rectangle's centre and clamped into the
\* frame (0 <= x, x + size <= width, likewise y), and the box returned is
\* that square expanded for the circle.
C22_SameNormalization ==
    \A b \in Backends :
        ~IsNone(bases[b]) =>
            /\ Get(bases[b]).size = RuleSide
            /\ Get(bases[b]).x = centred_position(raw_rect.x, raw_rect.w, RuleSide, width)
            /\ Get(bases[b]).y = centred_position(raw_rect.y, raw_rect.h, RuleSide, height)
            /\ 0 <= Get(bases[b]).x /\ Get(bases[b]).x + Get(bases[b]).size <= width
            /\ 0 <= Get(bases[b]).y /\ Get(bases[b]).y + Get(bases[b]).size <= height
            /\ boxes[b] = Some(circle_aligned_box(Get(face_cropper), Get(bases[b]),
                                                  width, height))

\* Backends that converted the same rectangle built the same square.
C22_BackendsAgree ==
    \A a, b \in Backends :
        (~IsNone(bases[a]) /\ ~IsNone(bases[b])) => bases[a] = bases[b]

\* Rectangles no longer than the short side of the frame and no shorter
\* than the floor: there the rule is followed by every backend.
C22_OrdinaryRectangle ==
    (/\ Max2(raw_rect.w, raw_rect.h) <= Min2(width, height)
     /\ Max2(raw_rect.w, raw_rect.h) >= min_face_size(Get(face_cropper), width, height))
        => C22_SameNormalization

----------------------------------------------------------------------------
(* Specification SpecFocus: focus_window applied to a list of detections.  *)

MaxFocusDetections == 2

FocusCandidates ==
    {DetectionResult(90, CropBox(8, 8, 16)), DetectionResult(80, CropBox(40, 36, 14)),
     DetectionResult(70, CropBox(50, 10, 20)), DetectionResult(60, CropBox(0, 30, 30))}

WindowSizes == {20, 30, 50, 64, 90}

InitFocus ==
    /\ pc = "detected"
    /\ \E fs \in FrameSizes : width = fs[1] /\ height = fs[2]
    /\ focus_dets \in SeqsUpTo(FocusCandidates, MaxFocusDetections)
    /\ focus_size \in WindowSizes
    /\ focus_box = None
    /\ \E priority \in {"largest", "center", "all"} :
           face_cropper = Some(FaceCropper(MIN_FACE_DEFAULT, priority, TRUE))
    /\ options = <<>>
    /\ backend = <<>>
    /\ manual_crop = None
    /\ detections = <<>>
    /\ planned = None
    /\ frames = <<>>
    /\ IdleGeom /\ IdleTracker /\ IdleVideo /\ IdleClip
    /\ IdleBatch /\ IdleGui /\ IdleEncode /\ IdleFilter /\ IdleConv
    /\ IdleOpt
    /\ IdleOut
    /\ IdleProc

FocusWindow ==
    /\ pc = "detected"
    /\ focus_box' = focus_window(Get(face_cropper), focus_dets, width, height, focus_size)
    /\ pc' = "focused"
    /\ UNCHANGED <<width, height, focus_dets, focus_size, imageVars, geomVars,
                   trackerVars, videoVars, clipVars, batchVars, guiVars, encodeVars,
                   filterVars, convVars, optVars, outVars, procVars>>

NextFocus == FocusWindow

SpecFocus == InitFocus /\ [][NextFocus]_vars

FocusSpans(axis) ==
    axis_spans(Get(face_cropper), focus_dets, axis,
               IF axis = "x" THEN width ELSE height, focus_size)

FocusLimit(total) == Max2(0, total - focus_size)

FocusCentre(total) == clamp((total - focus_size) \div 2, 0, FocusLimit(total))

\* The positions considered on an axis: 0, the upper limit, the centred
\* position, each span's start and each span's end minus the window size,
\* brought into [0, limit].
BreakPoints(axis, total) ==
    {0, FocusLimit(total), FocusCentre(total)}
        \cup {clamp(FocusSpans(axis)[i][1], 0, FocusLimit(total)) :
                 i \in 1..Len(FocusSpans(axis))}
        \cup {clamp(FocusSpans(axis)[i][2] - focus_size, 0, FocusLimit(total)) :
                 i \in 1..Len(FocusSpans(axis))}

Overlap(axis, pos) == span_coverage(FocusSpans(axis), pos, focus_size)

BestOnAxis(axis, total, pos) ==
    /\ 0 <= pos /\ pos <= FocusLimit(total)
    /\ \A bp \in BreakPoints(axis, total) :
        /\ Overlap(axis, pos) >= Overlap(axis, bp)
        /\ Overlap(axis, pos) = Overlap(axis, bp) =>
               Abs(pos - FocusCentre(total)) <= Abs(bp - FocusCentre(total))

\* C23: on each axis the position focus_window returns lies in
\* [0, max(0, dimension - focus_size)], its weighted overlap with the
\* spans of the detections is at least that of every position considered,
\* and of the positions with the same overlap it is closest to the centred
\* position.
C23_FocusWindowBest ==
    (pc = "focused" /\ ~IsNone(focus_box)) =>
        /\ Get(focus_box).size = focus_size
        /\ BestOnAxis("x", width, Get(focus_box).x)
        /\ BestOnAxis("y", height, Get(focus_box).y)

\* Two detections, and a window placed at a span's edge: neither centred
\* nor at an end of the range.
C23_Witness ==
    /\ pc = "focused"
    /\ Len(focus_dets) = 2
    /\ ~IsNone(focus_box)
    /\ Get(focus_box).x \notin {0, FocusLimit(width), FocusCentre(width)}
    /\ Overlap("x", Get(focus_box).x) > Overlap("x", FocusCentre(width))

\* Several positions of the best overlap, and the one returned is the
\* closest to the centre.
C23_TieBroken ==
    /\ pc = "focused"
    /\ ~IsNone(focus_box)
    /\ \E bp \in BreakPoints("x", width) :
        /\ bp # Get(focus_box).x
        /\ Overlap("x", bp) = Overlap("x", Get(focus_box).x)
        /\ Abs(bp - FocusCentre(width)) > Abs(Get(focus_box).x - FocusCentre(width))

\* focus_window returns nothing for an empty list.
C23_EmptyList ==
    (pc = "focused" /\ focus_dets = <<>>) <=> (pc = "focused" /\ IsNone(focus_box))

----------------------------------------------------------------------------
(* Specification SpecOptions: construction of the ProcessingOptions object *)
(* by the command line (build_options), by the window (the two option      *)
(* builders of src/src/gui.py) and by the tests, and the planner's read of *)
(* the motion direction from it.                                           *)

\* The fields of the dataclass ProcessingOptions (slots=True).
OptionFields ==
    {"input_path", "output_dir", "size", "fps", "quality", "crf", "preset", "mode",
     "crop_x", "crop_y", "crop_w", "crop_h", "min_face", "face_priority", "threads",
     "pad", "image_format", "video_ext", "keep_audio", "log_level",
     "face_detection_enabled", "detection_mode", "motion_enabled"}

\* Fields without a default.
RequiredFields == {"input_path", "output_dir"}

\* The generated __init__: a keyword that is not a field, or a missing
\* required field, raises TypeError; otherwise the object has the fields
\* passed (the other fields have their defaults, which the planner's read
\* of the direction does not involve).
dataclass_init(keywords) ==
    IF DOMAIN keywords \subseteq OptionFields /\ RequiredFields \subseteq DOMAIN keywords
    THEN [kind |-> "options", attrs |-> keywords]
    ELSE [kind |-> "TypeError"]

\* The keywords build_options passes that matter here; it passes
\* motion_direction with them.
build_options(args) ==
    IF ~args.input \/ ~args.output THEN [kind |-> "ValueError"]
    ELSE dataclass_init([f \in {"input_path", "output_dir", "mode", "image_format",
                                "face_detection_enabled", "detection_mode",
                                "motion_direction"} |->
                            CASE f = "input_path" -> "input"
                              [] f = "output_dir" -> "output"
                              [] f = "mode" -> args.mode
                              [] f = "image_format" ->
                                     IF args.format \in {"jpg", "png", "webp"}
                                     THEN args.format ELSE args.image_format
                              [] f = "face_detection_enabled" -> TRUE
                              [] f = "detection_mode" -> "auto"
                              [] f = "motion_direction" -> args.motion_direction])

\* _current_processing_options and _run_batch pass the same keywords.
gui_options(settings) ==
    dataclass_init([f \in {"input_path", "output_dir", "size", "face_detection_enabled",
                           "detection_mode", "motion_enabled", "motion_direction"} |->
                       CASE f = "input_path" -> "input"
                         [] f = "output_dir" -> "output"
                         [] f = "size" -> 480
                         [] f = "face_detection_enabled" -> TRUE
                         [] f = "detection_mode" -> "auto"
                         [] f = "motion_enabled" -> settings.motion_enabled
                         [] f = "motion_direction" -> settings.motion_direction])

\* The options of the tests: fields only.
test_options ==
    dataclass_init([f \in {"input_path", "output_dir", "face_detection_enabled"} |->
                       CASE f = "input_path" -> "input"
                         [] f = "output_dir" -> "output"
                         [] f = "face_detection_enabled" -> FALSE])

\* getattr(options, "motion_direction", "in") or "in"
read_direction(opts) ==
    IF "motion_direction" \in DOMAIN opts.attrs /\ opts.attrs.motion_direction # ""
    THEN opts.attrs.motion_direction
    ELSE "in"

CommandLines ==
    [input : BOOLEAN, output : BOOLEAN, mode : {"auto", "center", "manual"},
     image_format : {"jpg", "png"}, format : {"", "webp", "mp4"},
     motion_direction : {"in", "out"}]

WindowSettings == [motion_enabled : BOOLEAN, motion_direction : {"in", "out"}]

InitOptions ==
    /\ pc = "start"
    /\ \/ caller = "cli" /\ argv \in CommandLines
       \/ caller \in {"preview", "batch"} /\ argv \in WindowSettings
       \/ caller = "test" /\ argv = <<>>
    /\ built = None
    /\ direction_read = None
    /\ width = 0 /\ height = 0
    /\ options = <<>>
    /\ backend = <<>>
    /\ face_cropper = None
    /\ manual_crop = None
    /\ detections = <<>>
    /\ planned = None
    /\ frames = <<>>
    /\ IdleGeom /\ IdleTracker /\ IdleVideo /\ IdleClip
    /\ IdleBatch /\ IdleGui /\ IdleEncode /\ IdleFilter /\ IdleConv /\ IdleFocus
    /\ IdleOut
    /\ IdleProc

Constructed(result) ==
    /\ built' = Some(result)
    /\ pc' = IF result.kind = "options" THEN "built" ELSE "raised"
    /\ UNCHANGED <<width, height, caller, argv, direction_read, imageVars, geomVars,
                   trackerVars, videoVars, clipVars, batchVars, guiVars, encodeVars,
                   filterVars, convVars, focusVars, outVars, procVars>>

\* run_cli: options = build_options(args)
BuildOptions ==
    /\ pc = "start" /\ caller = "cli"
    /\ Constructed(build_options(argv))

\* _current_processing_options
CurrentProcessingOptions ==
    /\ pc = "start" /\ caller = "preview"
    /\ Constructed(gui_options(argv))

\* _run_batch
RunBatchOptions ==
    /\ pc = "start" /\ caller = "batch"
    /\ Constructed(gui_options(argv))

\* tests/test_pipelines.py
TestOptions ==
    /\ pc = "start" /\ caller = "test"
    /\ Constructed(test_options)

\* determine_motion_manual reads the direction.
ReadDirection ==
    /\ pc = "built"
    /\ direction_read' = Some(read_direction(Get(built)))
    /\ pc' = "planned"
    /\ UNCHANGED <<width, height, caller, argv, built, imageVars, geomVars,
                   trackerVars, videoVars, clipVars, batchVars, guiVars, encodeVars,
                   filterVars, convVars, focusVars, outVars, procVars>>

NextOptions ==
    BuildOptions \/ CurrentProcessingOptions \/ RunBatchOptions \/ TestOptions
        \/ ReadDirection

SpecOptions == InitOptions /\ [][NextOptions]_vars

\* C24: for every command line with --input and --output and either value
\* of --motion-direction, build_options returns an options object, and the
\* direction the planner reads from it is the one chosen; likewise for the
\* option builders of the window.
C24_DirectionOverridable ==
    /\ (pc # "start" /\ caller = "cli" /\ argv.input /\ argv.output) =>
           Get(built).kind = "options"
    /\ (pc # "start" /\ caller \in {"preview", "batch"}) =>
           Get(built).kind = "options"
    /\ (pc = "planned" /\ caller # "test") =>
           direction_read = Some(argv.motion_direction)

\* Without --input or --output build_options raises ValueError, which
\* run_cli turns into the exit message.
C24_MissingPathsRejected ==
    (pc # "start" /\ caller = "cli" /\ (~argv.input \/ ~argv.output)) =>
        Get(built).kind = "ValueError"

\* Every construction that passes motion_direction raises TypeError; the
\* planner only ever reads the default.
C24_AlwaysTypeError ==
    /\ (pc # "start" /\ caller = "cli" /\ argv.input /\ argv.output) =>
           Get(built).kind = "TypeError"
    /\ (pc # "start" /\ caller \in {"preview", "batch"}) =>
           Get(built).kind = "TypeError"
    /\ pc = "planned" => (caller = "test" /\ direction_read = Some("in"))

----------------------------------------------------------------------------
(* The tracker's state between calls of track, on SpecVideo *)

\* C25: after every call of track, whatever frames with and without
\* detections came before, 0 <= _lost_frames <= max_tracking_gap; a counter
\* above 0 implies that _last_smoothed is set; and _last_smoothed is set
\* if and only if the smoother's accumulator is.
C25_TrackerState ==
    /\ 0 <= lost_frames
    /\ lost_frames <= max_tracking_gap
    /\ lost_frames > 0 => ~IsNone(last_smoothed)
    /\ IsNone(last_smoothed) <=> IsNone(smoother_state)

\* A frame without focus was bridged: the counter stands at the gap and
\* the box and the accumulator are kept.
C25_Witness ==
    /\ ~IsNone(returned)
    /\ IsNone(focus)
    /\ lost_frames > 0
    /\ lost_frames = max_tracking_gap
    /\ ~IsNone(last_smoothed)
    /\ ~IsNone(smoother_state)

\* The gap was exceeded: box, counter and accumulator were cleared together.
C25_Cleared ==
    /\ ~IsNone(returned)
    /\ IsNone(focus)
    /\ ~IsNone(prev_smoothed)
    /\ IsNone(last_smoothed)
    /\ IsNone(smoother_state)
    /\ lost_frames = 0

----------------------------------------------------------------------------
(* Specification SpecOutput: the output files of a batch.  run_cli walks   *)
(* the input folder, hands the images to the thread pool and then the      *)
(* videos to process_video one after the other; every item's output path   *)
(* comes from safe_output_path.                                            *)

MaxSources == 2
MaxPoolSize == 2

SUPPORTED_IMAGE_EXTS == {".jpg", ".jpeg", ".png", ".webp", ".heic", ".heif"}
SUPPORTED_VIDEO_EXTS == {".mp4", ".mov", ".mkv", ".avi"}

\* A source file: folder below the input folder, stem, extension, mtime.
SourceFile(dir, stem, ext, mtime) == [dir |-> dir, stem |-> stem, ext |-> ext, mtime |-> mtime]

SOURCE_MTIME == 1     \* the sources were last modified before the run
RUN_TIME == 2         \* the time of the run, the mtime of what it writes

SourceFiles ==
    {SourceFile(dir, stem, ext, SOURCE_MTIME) :
        dir \in {"", "sub"}, stem \in {"a", "b"}, ext \in {".jpg", ".png", ".mp4"}}

is_image(path) == path.ext \in SUPPORTED_IMAGE_EXTS
is_video(path) == path.ext \in SUPPORTED_VIDEO_EXTS

OutputPath(stem, suffix, ext) == [stem |-> stem, suffix |-> suffix, ext |-> ext]

\* output_dir / f"{stem}_{size}x{size}{ext}"
safe_output_path(src_path, size, image_format, video_ext) ==
    OutputPath(src_path.stem, size,
               IF is_image(src_path) THEN image_format ELSE video_ext)

\* process_image replaces the suffix by the video extension; process_video
\* takes the path as it is.
output_path(src_path, size, image_format, video_ext) ==
    IF is_image(src_path)
    THEN [safe_output_path(src_path, size, image_format, video_ext)
             EXCEPT !.ext = video_ext]
    ELSE safe_output_path(src_path, size, image_format, video_ext)

DEFAULT_SIZE == 480

Target(i) == output_path(sources[i], DEFAULT_SIZE, ".jpg", ".mp4")

Items == 1..Len(sources)

FileAt(path) == {f \in out_files : f.path = path}

\* output_path.exists() and output_path.stat().st_mtime >= path.stat().st_mtime
already_there(i) == \E f \in FileAt(Target(i)) : f.mtime >= sources[i].mtime

Finished(i) == item_state[i] \in {"written", "skipped"}

InitOutput ==
    /\ pc = "batch"
    /\ sources \in {q \in SeqsUpTo(SourceFiles, MaxSources) :
                       q # <<>> /\ \A i, j \in 1..Len(q) : i # j => q[i] # q[j]}
    /\ pool_size \in 1..MaxPoolSize
    /\ item_state = [i \in 1..Len(sources) |-> "pending"]
    /\ out_files = {}
    /\ skipped_for = {}
    /\ overwrote = {}
    /\ width = 0 /\ height = 0
    /\ options = <<>>
    /\ backend = <<>>
    /\ face_cropper = None
    /\ manual_crop = None
    /\ detections = <<>>
    /\ planned = None
    /\ frames = <<>>
    /\ IdleGeom /\ IdleTracker /\ IdleVideo /\ IdleClip
    /\ IdleBatch /\ IdleGui /\ IdleEncode /\ IdleFilter /\ IdleConv /\ IdleFocus
    /\ IdleOpt
    /\ IdleProc

\* The pool has a free thread for image i; the driver has reached video i.
Scheduled(i) ==
    IF is_image(sources[i])
    THEN Cardinality({j \in Items : is_image(sources[j])
                                    /\ item_state[j] \in {"checked", "encoding"}})
             < pool_size
    ELSE /\ \A j \in Items : is_image(sources[j]) => Finished(j)
         /\ \A j \in 1..(i - 1) : Finished(j)

\* process_image / process_video up to the check of the output file.
CheckOutput(i) ==
    /\ item_state[i] = "pending"
    /\ Scheduled(i)
    /\ item_state' = [item_state EXCEPT ![i] =
                         IF already_there(i) THEN "skipped" ELSE "checked"]
    /\ skipped_for' = IF already_there(i) /\ \E f \in FileAt(Target(i)) : f.source # i
                      THEN skipped_for \cup {i} ELSE skipped_for
    /\ UNCHANGED <<sharedVars, sources, pool_size, out_files, overwrote, imageVars,
                   geomVars, trackerVars, videoVars, clipVars, batchVars, guiVars,
                   encodeVars, filterVars, convVars, focusVars, optVars, procVars>>

\* ffmpeg -y is started on the output path: the file is created or replaced.
StartEncoder(i) ==
    /\ item_state[i] = "checked"
    /\ item_state' = [item_state EXCEPT ![i] = "encoding"]
    /\ out_files' = (out_files \ FileAt(Target(i)))
                        \cup {[path |-> Target(i), source |-> i, mtime |-> RUN_TIME]}
    /\ overwrote' = IF \E f \in FileAt(Target(i)) : f.source # i
                    THEN overwrote \cup {i} ELSE overwrote
    /\ UNCHANGED <<sharedVars, sources, pool_size, skipped_for, imageVars,
                   geomVars, trackerVars, videoVars, clipVars, batchVars, guiVars,
                   encodeVars, filterVars, convVars, focusVars, optVars, procVars>>

\* The encoder has exited.
EncoderDone(i) ==
    /\ item_state[i] = "encoding"
    /\ item_state' = [item_state EXCEPT ![i] = "written"]
    /\ UNCHANGED <<sharedVars, sources, pool_size, out_files, skipped_for, overwrote,
                   imageVars, geomVars, trackerVars, videoVars, clipVars, batchVars,
                   guiVars, encodeVars, filterVars, convVars, focusVars, optVars, procVars>>

NextOutput ==
    \/ \E i \in Items : CheckOutput(i)
    \/ \E i \in Items : StartEncoder(i)
    \/ \E i \in Items : EncoderDone(i)

SpecOutput == InitOutput /\ [][NextOutput]_vars

\* C26: every distinct source of a batch gets its own output: no source is
\* skipped as already processed because of another source's output, no
\* output of one source is replaced by another's, and no two encoders
\* write the same path at the same time.
C26_OwnOutput ==
    /\ skipped_for = {}
    /\ overwrote = {}
    /\ \A i, j \in Items :
           (i # j /\ item_state[i] = "encoding" /\ item_state[j] = "encoding") =>
               Target(i) # Target(j)

\* Sources with different stems keep their outputs apart.
C26_DistinctStems ==
    (\A i, j \in Items : i # j => sources[i].stem # sources[j].stem) =>
        C26_OwnOutput

\* Two encoders write one path at once.
C26_NoConcurrentWrite ==
    \A i, j \in Items :
        (i # j /\ item_state[i] = "encoding" /\ item_state[j] = "encoding") =>
            Target(i) # Target(j)

\* No output is replaced.
C26_NoOverwrite == overwrote = {}

\* No source is skipped for another's output.
C26_NoSkip == skipped_for = {}

----------------------------------------------------------------------------
(* Specification SpecProcess: the encoder process and the video capture    *)
(* held by process_video (src/src/video_pipeline.py) and by _encode_video  *)
(* (src/src/image_pipeline.py) while the frames of one item are written.   *)

MaxEncodedFrames == 3

\* What writing one frame may raise: nothing, an error of the detector or
\* of the frame's processing, or BrokenPipeError when the encoder is gone.
FrameErrors == {"RuntimeError", "cv2.error"}

InitProcess ==
    /\ pc = "start"
    /\ media_kind \in {"video", "image"}
    /\ frames_left \in 0..MaxEncodedFrames
    /\ frames_sent = 0
    /\ cap_open = FALSE
    /\ pipe_open = FALSE
    /\ proc_state = "none"
    /\ raised = None
    /\ width = 0 /\ height = 0
    /\ options = <<>>
    /\ backend = <<>>
    /\ face_cropper = None
    /\ manual_crop = None
    /\ detections = <<>>
    /\ planned = None
    /\ frames = <<>>
    /\ IdleGeom /\ IdleTracker /\ IdleVideo /\ IdleClip
    /\ IdleBatch /\ IdleGui /\ IdleEncode /\ IdleFilter /\ IdleConv /\ IdleFocus
    /\ IdleOpt /\ IdleOut

OtherProcessVars ==
    <<width, height, imageVars, geomVars, trackerVars, videoVars, clipVars, batchVars,
      guiVars, encodeVars, filterVars, convVars, focusVars, optVars, outVars>>

\* cv2.VideoCapture(path); not opened: RuntimeError.
OpenCapture ==
    /\ pc = "start" /\ media_kind = "video"
    /\ \/ /\ cap_open' = TRUE
          /\ pc' = "probe"
          /\ raised' = raised
       \/ /\ cap_open' = FALSE
          /\ pc' = "raised"
          /\ raised' = Some("RuntimeError")
    /\ UNCHANGED <<media_kind, frames_left, frames_sent, pipe_open, proc_state,
                   OtherProcessVars>>

\* run_ffprobe(path): subprocess.run(..., check=True) may raise.
RunFfprobe ==
    /\ pc = "probe"
    /\ \/ pc' = "spawn" /\ raised' = raised
       \/ pc' = "raised" /\ raised' = Some("CalledProcessError")
    /\ UNCHANGED <<media_kind, frames_left, frames_sent, cap_open, pipe_open,
                   proc_state, OtherProcessVars>>

\* proc = subprocess.Popen(ffmpeg_cmd, stdin=subprocess.PIPE)
StartFfmpeg ==
    /\ \/ pc = "spawn"
       \/ pc = "start" /\ media_kind = "image"
    /\ proc_state' = "running"
    /\ pipe_open' = TRUE
    /\ pc' = "frames"
    /\ UNCHANGED <<media_kind, frames_left, frames_sent, cap_open, raised,
                   OtherProcessVars>>

\* The encoder exits on its own (bad input, full disk, killed).
FfmpegExits ==
    /\ pc = "frames"
    /\ proc_state = "running"
    /\ proc_state' = "exited"
    /\ UNCHANGED <<pc, media_kind, frames_left, frames_sent, cap_open, pipe_open,
                   raised, OtherProcessVars>>

\* What the frame raises: the write fails when the encoder has exited,
\* and the processing of the frame may fail before it.
FrameOutcomes == IF proc_state = "exited"
                 THEN {"BrokenPipeError"} \cup FrameErrors
                 ELSE {"ok"} \cup FrameErrors

\* process_video: an exception in the loop leaves the function as it is.
video_frame_failed(error) ==
    /\ UNCHANGED <<pipe_open, proc_state, cap_open>>
    /\ raised' = Some(error)
    /\ pc' = "raised"

\* One turn of the loop of process_video.
ProcessVideoFrame ==
    /\ pc = "frames" /\ media_kind = "video"
    /\ frames_left > 0
    /\ \E outcome \in FrameOutcomes :
        IF outcome = "ok"
        THEN /\ frames_left' = frames_left - 1
             /\ frames_sent' = frames_sent + 1
             /\ UNCHANGED <<pc, cap_open, pipe_open, proc_state, raised>>
        ELSE /\ video_frame_failed(outcome)
             /\ UNCHANGED <<frames_left, frames_sent>>
    /\ UNCHANGED <<media_kind, OtherProcessVars>>

\* One turn of the loop of _encode_video; finally: stdin.close(), wait().
EncodeImageFrame ==
    /\ pc = "frames" /\ media_kind = "image"
    /\ frames_left > 0
    /\ \E outcome \in FrameOutcomes :
        IF outcome = "ok"
        THEN /\ frames_left' = frames_left - 1
             /\ frames_sent' = frames_sent + 1
             /\ UNCHANGED <<pc, pipe_open, proc_state, raised>>
        ELSE /\ pipe_open' = FALSE
             /\ proc_state' = "reaped"
             /\ raised' = Some(outcome)
             /\ pc' = "raised"
             /\ UNCHANGED <<frames_left, frames_sent>>
    /\ UNCHANGED <<media_kind, cap_open, OtherProcessVars>>

\* After the last frame: stdin.close(), cap.release(), wait(); a non-zero
\* return code raises RuntimeError.
CloseAndWait ==
    /\ pc = "frames"
    /\ frames_left = 0
    /\ pipe_open' = FALSE
    /\ cap_open' = FALSE
    /\ proc_state' = "reaped"
    /\ IF proc_state = "exited"
       THEN pc' = "raised" /\ raised' = Some("RuntimeError")
       ELSE pc' = "returned" /\ raised' = raised
    /\ UNCHANGED <<media_kind, frames_left, frames_sent, OtherProcessVars>>

NextProcess ==
    OpenCapture \/ RunFfprobe \/ StartFfmpeg \/ FfmpegExits \/ ProcessVideoFrame
        \/ EncodeImageFrame \/ CloseAndWait

SpecProcess == InitProcess /\ [][NextProcess]_vars

Released ==
    /\ ~pipe_open
    /\ proc_state \in {"none", "reaped"}
    /\ ~cap_open

\* C27: when an exception raised after the encoder was started, while the
\* frames are processed, reaches the caller, the encoder's input pipe is closed, the encoder process has
\* been waited for and the capture is released, for a video as for a still
\* image; no encoder is left running or unreaped.
C27_ReleasedOnFailure ==
    (pc = "raised" /\ proc_state # "none") => Released

\* _encode_video alone: the finally clause closes the pipe and waits.
C27_ImageReleased ==
    (media_kind = "image" /\ pc \in {"raised", "returned"}) => Released

\* A video whose loop ran to the end leaves nothing behind.
C27_VideoReleasedAtEnd ==
    (media_kind = "video" /\ (pc = "returned" \/ (pc = "raised" /\ frames_left = 0
                                                   /\ proc_state = "reaped")))
        => Released

----------------------------------------------------------------------------
(* The endpoints of plan_motion and the relevant detections, on SpecPlan *)

\* box contains the bounding box of the relevant detections.
ContainsRelevant(box) ==
    /\ box.x <= bounds_min_x(Relevant)
    /\ box.x + box.size >= bounds_max_x(Relevant)
    /\ box.y <= bounds_min_y(Relevant)
    /\ box.y + box.size >= bounds_max_y(Relevant)

\* What plan_motion returns for the detections of the image.
MotionPlan == plan_motion(Get(face_cropper), detections, width, height)

\* C28: both endpoints plan_motion returns for the candidates of
\* detect_subjects contain the bounding box of all relevant detections
\* (x <= minX, x + size >= maxX, y <= minY, y + size >= maxY), and so do
\* the endpoints after they were normalized without overflow.
C28_EndpointsContainRelevant ==
    (MotionPlanned /\ detections # <<>>) =>
        /\ ~IsNone(MotionPlan)
        /\ ContainsRelevant(Get(MotionPlan)[1])
        /\ ContainsRelevant(Get(MotionPlan)[2])
        /\ ContainsRelevant(Get(planned).start)
        /\ ContainsRelevant(Get(planned).end)

\* Two relevant detections apart from each other, and a closer end point
\* smaller than the largest crop.
C28_Witness ==
    /\ MotionPlanned
    /\ Len(Relevant) = 2
    /\ bounds_max_x(Relevant) - bounds_min_x(Relevant) > largest_size(Relevant)
    /\ Get(planned).start # Get(planned).end
    /\ Get(MotionPlan)[2].size < max_crop_size(width, height)

----------------------------------------------------------------------------
(* focus_window in the planner and the tracker, on SpecPlan *)

\* The planner or the tracker went through the chain combine, select,
\* focus_window with the detector's candidates.
ChainRan == StillPlanned \/ pc = "tracked"

\* Neither combine nor select gave a box: the call of focus_window is next.
FocusWindowReached == ChainRan /\ IsNone(Combined) /\ IsNone(Selected)

\* C29: select_detection returns a candidate for every non-empty list in
\* every priority mode, so the planner and the tracker reach focus_window
\* only with an empty list, for which it returns nothing; the box they use
\* never comes from focus_window.
C29_FocusWindowUnused ==
    /\ (ChainRan /\ detections # <<>>) => ~IsNone(Selected)
    /\ FocusWindowReached =>
        /\ detections = <<>>
        /\ IsNone(focus_window(Get(face_cropper), detections, width, height,
                               center_square(width, height, options.pad).size))
    /\ StillPlanned =>
        Get(planned).end =
            normalize_crop(width, height,
                or_else(priority_chain(Combined, Selected, None),
                        center_square(width, height, options.pad)),
                FALSE)
    /\ pc = "tracked" => focus = priority_chain(Combined, Selected, None)

\* Mode "all", candidates that combine turns down: the tracker's focus is
\* the selected candidate.
C29_Witness ==
    /\ pc = "tracked"
    /\ Get(face_cropper).face_priority = "all"
    /\ detections # <<>>
    /\ IsNone(Combined)
    /\ focus = Some(Get(Selected).box)

\* The tracker reached focus_window with no candidate and got nothing.
C29_ReachedEmpty ==
    /\ pc = "tracked"
    /\ FocusWindowReached
    /\ detections = <<>>
    /\ IsNone(focus)

----------------------------------------------------------------------------
(* The union of the relevant detections and the largest crop, on SpecPlan *)

\* fits_all of plan_motion.
FitsAll ==
    /\ bounds_max_x(Relevant) - bounds_min_x(Relevant) <= max_crop_size(width, height)
    /\ bounds_max_y(Relevant) - bounds_min_y(Relevant) <= max_crop_size(width, height)

\* The sizes plan_motion gives the endpoints built from the union.
UnionFaceSize ==
    clamp(MulRatio(Max2(Max2(bounds_max_x(Relevant) - bounds_min_x(Relevant),
                             bounds_max_y(Relevant) - bounds_min_y(Relevant)),
                        largest_size(Relevant)), FACE_SCALE),
          Max2(min_face_size(Get(face_cropper), width, height), largest_size(Relevant)),
          max_crop_size(width, height))

UnionBodySize ==
    clamp(MulRatio(UnionFaceSize, BODY_SCALE),
          Max2(min_face_size(Get(face_cropper), width, height), largest_size(Relevant)),
          max_crop_size(width, height))

UnionEndpoint(size, top_ratio) ==
    crop_from_bounds(bounds_min_x(Relevant), bounds_max_x(Relevant),
                     bounds_min_y(Relevant), bounds_max_y(Relevant),
                     size, width, height, top_ratio)

\* C30: every candidate of detect_subjects has x >= 0, y >= 0,
\* size <= max(width, height) and x + size <= max(width, size) (likewise
\* y); the union of the relevant ones fits within the largest crop on both
\* axes, and plan_motion builds both endpoints from the union, never from
\* the two largest detections.
C30_UnionFits ==
    (DetectorRan /\ detections # <<>>) =>
        /\ \A i \in 1..Len(detections) :
            /\ detections[i].box.x >= 0
            /\ detections[i].box.y >= 0
            /\ detections[i].box.size <= Max2(width, height)
            /\ detections[i].box.x + detections[i].box.size
                   <= Max2(width, detections[i].box.size)
            /\ detections[i].box.y + detections[i].box.size
                   <= Max2(height, detections[i].box.size)
        /\ FitsAll
        /\ MotionPlan = Some(<<UnionEndpoint(UnionBodySize, BODY_TOP_RATIO),
                               UnionEndpoint(UnionFaceSize, FACE_TOP_RATIO)>>)

\* Two relevant detections apart from each other: the endpoints are those
\* of the union and not those of the two detections.
C30_Witness ==
    /\ DetectorRan /\ pc = "motion"
    /\ Len(Relevant) = 2
    /\ bounds_max_x(Relevant) - bounds_min_x(Relevant) > largest_size(Relevant)
    /\ Get(MotionPlan)[2] = UnionEndpoint(UnionFaceSize, FACE_TOP_RATIO)
    /\ \A i \in 1..2 : Get(MotionPlan)[2].size > Relevant[i].box.size + 1

====
